---- MODULE Spec2Model ----
(***************************************************************************)
(* A model of the request binder of go-owl/owl (binder.go) and of the      *)
(* pieces of the App around it.                                            *)
(*                                                                         *)
(* Conventions.  A Go string on which the code computes (len, prefix,      *)
(* strconv) is a sequence of one-character strings.  Identifiers (field    *)
(* names, map keys) are TLA+ strings.  A request body is a sequence of     *)
(* lexical tokens.  An error is a record [Code, Message, Arg, Cause]: the  *)
(* literal text the code starts the message with, the text it appends      *)
(* (a field name, a file name, the content type) and the Error() text of   *)
(* the wrapped error; Code = 0 is the nil error.                           *)
(***************************************************************************)
EXTENDS Integers, Sequences, FiniteSets, TLC

VARIABLES
    phase,        \* "new": the App is not created yet; "ready": a request is waiting for its
                  \* bind call or its handler; "done": the call returned
    op,           \* the Binder method that was called ("" before the call)
    strictJSON,   \* App.strictJSON, as handed to newCtx by wrapHandler
    contentType,  \* the request's Content-Type header
    body,         \* b.request.Body: [present, data, readErr]
    bodyReads,    \* number of times the body stream was consumed
    bodyCloses,   \* number of Close calls on the body stream
    query,        \* b.request.URL.Query()
    form,         \* what ParseForm / ParseMultipartForm make of the request: [err, Value, File]
    dstShape,     \* what the caller passed as dst: "ptrStruct", "struct", "nilPtr", "ptrInt", "nil"
    dstType,      \* the struct type of the destination
    dst0,         \* the destination before the call
    dst,          \* the destination
    err,          \* the error the call returned
    maxMem,       \* the maxMemory ParseMultipartForm was called with, 0 if it was not called
    panicked,     \* the call did not return: a panic left the Binder method and reached the caller
    fileHeader,   \* the *multipart.FileHeader Binder.File returned, <<>> for nil
    config,       \* the AppConfig the program hands to New: [given, BodyLimitSet, BodyLimit, StrictJSON]
    bodyLimit,    \* App.bodyLimit
    status,       \* the status code written to the response, 0 while none is written
    remoteAddr,   \* r.RemoteAddr
    xRealIP,      \* r.Header.Get("X-Real-IP")
    xForwardedFor,\* r.Header.Get("X-Forwarded-For")
    trustProxy,   \* the trustProxy argument of ClientIP
    clientIP,     \* what ClientIP returned
    ptrSize,      \* the size in bytes of a func value on the platform the program is built for
    heap,         \* the backing arrays of the middleware slices, each as long as its capacity
    middlewares,  \* App.middlewares: a slice [arr, len]
    groups,       \* the Groups and RouteBuilders made so far: [kind, middlewares, given], given
                  \* being the middlewares handed over along the path that made the object
    routes,       \* the routes registered on the mux: [chain, mws, given]
    served,       \* the request served: [route, stopAt, stopErr, handler, ran, err], ran being
                  \* the middlewares and the handler that ran, in order
    writes,       \* the codes WriteHeader was called with for the request, in order
    errorHandlerCalls, \* the errors App.errorHandler was called with for the request, in order
    corsConfig,   \* the CORSConfig handed to CORSWithConfig
    method,       \* r.Method
    origin,       \* r.Header.Get("Origin")
    requestHeaders, \* r.Header.Get("Access-Control-Request-Headers")
    header,       \* w.Header() of the response
    nextCalls     \* number of times the handler behind the CORS middleware was served

ipVars == <<remoteAddr, xRealIP, xForwardedFor, trustProxy, clientIP>>

routerVars == <<ptrSize, heap, middlewares, groups, routes, served, writes, errorHandlerCalls>>

corsVars == <<corsConfig, method, origin, requestHeaders, header, nextCalls>>

vars == <<phase, op, strictJSON, contentType, body, bodyReads, bodyCloses,
          query, form, dstShape, dstType, dst0, dst, err, maxMem, panicked, fileHeader,
          config, bodyLimit, status, ipVars, routerVars, corsVars>>

-----------------------------------------------------------------------------
(* Errors: request.go *)

NilErr == [Code |-> 0, Message |-> "", Arg |-> <<>>, Cause |-> ""]

StatusBadRequest == 400

StatusUnsupportedMediaType == 415

\* NewHTTPError(code, message) where message is  text + arg  or  text + arg + ": " + cause
NewHTTPError(code, text, arg, cause) ==
    [Code |-> code, Message |-> text, Arg |-> arg, Cause |-> cause]

IsNil(e) == e.Code = 0

-----------------------------------------------------------------------------
(* Strings and strconv *)

\* a local variable: F applied to the value v, which is written once and named by F's parameter
With(v, F(_)) == F(v)

Digits == {"0", "1", "2", "3", "4", "5", "6", "7", "8", "9"}

DigitVal(c) ==
    CASE c = "0" -> 0 [] c = "1" -> 1 [] c = "2" -> 2 [] c = "3" -> 3 [] c = "4" -> 4
      [] c = "5" -> 5 [] c = "6" -> 6 [] c = "7" -> 7 [] c = "8" -> 8 [] c = "9" -> 9

Repeat(c, n) == [i \in 1..n |-> c]

HasPrefix(s, p) == Len(s) >= Len(p) /\ SubSeq(s, 1, Len(p)) = p

Tail1(s) == SubSeq(s, 2, Len(s))

\* the digits of s without its leading zeros
Significant(s) ==
    IF \A i \in 1..Len(s) : s[i] = "0" THEN <<>>
    ELSE LET first == CHOOSE i \in 1..Len(s) : s[i] # "0" /\ \A j \in 1..(i-1) : s[j] = "0"
         IN  SubSeq(s, first, Len(s))

\* d > m for two digit strings without leading zeros
DigitsGreater(d, m) ==
    \/ Len(d) > Len(m)
    \/ /\ Len(d) = Len(m)
       /\ \E i \in 1..Len(d) : /\ DigitVal(d[i]) > DigitVal(m[i])
                               /\ \A j \in 1..(i-1) : d[j] = m[j]

RECURSIVE NumVal(_)
NumVal(d) == IF d = <<>> THEN 0 ELSE 10 * NumVal(SubSeq(d, 1, Len(d) - 1)) + DigitVal(d[Len(d)])

\* 1<<64 - 1
MaxUint64 == <<"1","8","4","4","6","7","4","4","0","7","3","7","0","9","5","5","1","6","1","5">>

\* 1<<63
CutoffInt64 == <<"9","2","2","3","3","7","2","0","3","6","8","5","4","7","7","5","8","0","8">>

\* 1<<63 - 1
MaxInt64 == <<"9","2","2","3","3","7","2","0","3","6","8","5","4","7","7","5","8","0","7">>

ErrSyntax == "invalid syntax"

ErrRange == "value out of range"

\* strconv.ParseUint(s, 10, 64): [err, val]; err = "" is success
ParseUint(s) ==
    IF s = <<>> THEN [err |-> ErrSyntax, val |-> 0]
    ELSE IF \E i \in 1..Len(s) : s[i] \notin Digits THEN [err |-> ErrSyntax, val |-> 0]
    ELSE IF DigitsGreater(Significant(s), MaxUint64) THEN [err |-> ErrRange, val |-> 0]
    ELSE [err |-> "", val |-> NumVal(Significant(s))]

\* strconv.ParseInt(s, 10, 64): [err, val]; err = "" is success
ParseInt(s) ==
    IF s = <<>> THEN [err |-> ErrSyntax, val |-> 0]
    ELSE LET neg  == s[1] = "-"
             rest == IF s[1] \in {"+", "-"} THEN Tail1(s) ELSE s
         IN  IF rest = <<>> \/ \E i \in 1..Len(rest) : rest[i] \notin Digits
             THEN [err |-> ErrSyntax, val |-> 0]
             ELSE With(Significant(rest), LAMBDA d :
                      IF ~neg /\ DigitsGreater(d, MaxInt64) THEN [err |-> ErrRange, val |-> 0]
                      ELSE IF neg /\ DigitsGreater(d, CutoffInt64) THEN [err |-> ErrRange, val |-> 0]
                      ELSE [err |-> "", val |-> IF neg THEN 0 - NumVal(d) ELSE NumVal(d)])

\* strconv.ParseBool
\* the digits of d without its trailing zeros
RECURSIVE TrimZeros(_)
TrimZeros(d) ==
    IF d # <<>> /\ d[Len(d)] = "0" THEN TrimZeros(SubSeq(d, 1, Len(d) - 1)) ELSE d

\* strconv.ParseFloat(s, 64) on plain decimal texts of a few digits, "2.5" or "-12": the value
\* as sign, integral part and fraction digits.  The requests of the model carry no exponent,
\* no hexadecimal text, no "inf" and no "nan"
ParseFloat(s) ==
    LET rest   == IF s # <<>> /\ s[1] \in {"+", "-"} THEN Tail1(s) ELSE s
        dots   == {k \in 1..Len(rest) : rest[k] = "."}
        digits == {k \in 1..Len(rest) : rest[k] \in Digits}
        dot    == IF dots = {} THEN Len(rest) + 1 ELSE CHOOSE k \in dots : TRUE
    IN  IF Cardinality(dots) > 1 \/ digits = {} \/ dots \cup digits # 1..Len(rest)
        THEN [err |-> ErrSyntax, val |-> [neg |-> FALSE, int |-> 0, frac |-> <<>>]]
        ELSE [err |-> "",
              val |-> [neg  |-> s[1] = "-",
                       int  |-> NumVal(SubSeq(rest, 1, dot - 1)),
                       frac |-> TrimZeros(SubSeq(rest, dot + 1, Len(rest)))]]

ParseBool(s) ==
    IF s \in {<<"1">>, <<"t">>, <<"T">>, <<"T","R","U","E">>, <<"t","r","u","e">>, <<"T","r","u","e">>}
    THEN [err |-> "", val |-> TRUE]
    ELSE IF s \in {<<"0">>, <<"f">>, <<"F">>, <<"F","A","L","S","E">>, <<"f","a","l","s","e">>,
                   <<"F","a","l","s","e">>}
    THEN [err |-> "", val |-> FALSE]
    ELSE [err |-> ErrSyntax, val |-> FALSE]

-----------------------------------------------------------------------------
(* reflect: the types of the model and their values                        *)
(*   string: a sequence of characters       intN, uintN: an integer        *)
(*   bool: a BOOLEAN                         *T: <<>> (nil) or <<v>>       *)
(*   [n]T: a sequence of n values            []T: [isNil, elems]           *)
(*   multipart.FileHeader: [Filename, Size]                                *)

Kind(t) ==
    CASE t = "string" -> "string"
      [] t \in {"int", "int8", "int16", "int32", "int64"} -> t
      [] t \in {"uint", "uint8", "uint16", "uint32", "uint64"} -> t
      [] t = "bool" -> "bool"
      [] t = "float64" -> "float64"
      [] t \in {"*string", "*int8", "*multipart.FileHeader"} -> "ptr"
      [] t \in {"[2]int", "[2]string"} -> "array"
      [] t \in {"[]string", "[]int", "[]int8", "[]bool", "[]*multipart.FileHeader"} -> "slice"
      [] t = "multipart.FileHeader" -> "struct"

Elem(t) ==
    CASE t = "*string" -> "string"
      [] t = "*int8" -> "int8"
      [] t = "*multipart.FileHeader" -> "multipart.FileHeader"
      [] t = "[2]int" -> "int"
      [] t = "[2]string" -> "string"
      [] t = "[]string" -> "string"
      [] t = "[]int" -> "int"
      [] t = "[]int8" -> "int8"
      [] t = "[]bool" -> "bool"
      [] t = "[]*multipart.FileHeader" -> "*multipart.FileHeader"

ArrayLen(t) == CASE t \in {"[2]int", "[2]string"} -> 2

IntKinds == {"int", "int8", "int16", "int32", "int64"}

UintKinds == {"uint", "uint8", "uint16", "uint32", "uint64"}

\* the size in bits of an integer kind (int and uint are 64 bits wide on the platforms modelled)
Bits(k) ==
    CASE k \in {"int8", "uint8"} -> 8
      [] k \in {"int16", "uint16"} -> 16
      [] k \in {"int32", "uint32"} -> 32
      [] k \in {"int", "int64", "uint", "uint64"} -> 64

RECURSIVE Zero(_)
Zero(t) ==
    CASE Kind(t) = "string" -> <<>>
      [] Kind(t) \in IntKinds \cup UintKinds -> 0
      [] Kind(t) = "bool" -> FALSE
      [] Kind(t) = "float64" -> [neg |-> FALSE, int |-> 0, frac |-> <<>>]
      [] Kind(t) = "ptr" -> <<>>
      [] Kind(t) = "array" -> [i \in 1..ArrayLen(t) |-> Zero(Elem(t))]
      [] Kind(t) = "slice" -> [isNil |-> TRUE, elems |-> <<>>]
      [] Kind(t) = "struct" -> [Filename |-> <<>>, Size |-> 0]

\* reflect.Value.OverflowInt: x does not fit the kind's width
OverflowInt(k, x) ==
    /\ Bits(k) < 64
    /\ \/ x < 0 - 2^(Bits(k) - 1)
       \/ x > 2^(Bits(k) - 1) - 1

\* reflect.Value.OverflowUint
OverflowUint(k, x) == Bits(k) < 64 /\ x > 2^Bits(k) - 1

\* (*strconv.NumError).Error(), without the quoted input
NumErrorText(fn, e) ==
    CASE fn = "ParseInt"  /\ e = ErrSyntax -> "strconv.ParseInt: invalid syntax"
      [] fn = "ParseInt"  /\ e = ErrRange  -> "strconv.ParseInt: value out of range"
      [] fn = "ParseUint" /\ e = ErrSyntax -> "strconv.ParseUint: invalid syntax"
      [] fn = "ParseUint" /\ e = ErrRange  -> "strconv.ParseUint: value out of range"
      [] fn = "ParseBool" -> "strconv.ParseBool: invalid syntax"
      [] fn = "ParseFloat" -> "strconv.ParseFloat: invalid syntax"

\* setField keeping the low bits of a value that does not fit the field
setFieldTruncating(t, cur, value) ==
    CASE Kind(t) = "string" -> [err |-> "", val |-> value]
      [] Kind(t) \in IntKinds ->
            With(ParseInt(value), LAMBDA p :
                IF p.err # "" THEN [err |-> NumErrorText("ParseInt", p.err), val |-> cur]
                ELSE IF OverflowInt(Kind(t), p.val)
                     THEN [err |-> "", val |-> ((p.val + 2^(Bits(Kind(t)) - 1)) % 2^Bits(Kind(t)))
                                                  - 2^(Bits(Kind(t)) - 1)]
                     ELSE [err |-> "", val |-> p.val])
      [] Kind(t) \in UintKinds ->
            With(ParseUint(value), LAMBDA p :
                IF p.err # "" THEN [err |-> NumErrorText("ParseUint", p.err), val |-> cur]
                ELSE IF OverflowUint(Kind(t), p.val)
                     THEN [err |-> "", val |-> p.val % 2^Bits(Kind(t))]
                     ELSE [err |-> "", val |-> p.val])
      [] OTHER -> [err |-> "http 400: unsupported field type", val |-> cur]

\* setField(field, value): the error's Error() text ("" for nil) and the field's new value
setField(t, cur, value) ==
    CASE Kind(t) = "string" -> [err |-> "", val |-> value]
      [] Kind(t) \in IntKinds ->
            With(ParseInt(value), LAMBDA p :
                IF p.err # "" THEN [err |-> NumErrorText("ParseInt", p.err), val |-> cur]
                ELSE IF OverflowInt(Kind(t), p.val)
                     THEN [err |-> "http 400: integer overflow", val |-> cur]
                     ELSE [err |-> "", val |-> p.val])
      [] Kind(t) \in UintKinds ->
            With(ParseUint(value), LAMBDA p :
                IF p.err # "" THEN [err |-> NumErrorText("ParseUint", p.err), val |-> cur]
                ELSE IF OverflowUint(Kind(t), p.val)
                     THEN [err |-> "http 400: unsigned integer overflow", val |-> cur]
                     ELSE [err |-> "", val |-> p.val])
      [] Kind(t) = "bool" ->
            With(ParseBool(value), LAMBDA p :
                IF p.err # "" THEN [err |-> NumErrorText("ParseBool", p.err), val |-> cur]
                ELSE [err |-> "", val |-> p.val])
      [] Kind(t) = "float64" ->
            With(ParseFloat(value), LAMBDA p :
                IF p.err # "" THEN [err |-> NumErrorText("ParseFloat", p.err), val |-> cur]
                ELSE [err |-> "", val |-> p.val])
      [] Kind(t) = "ptr"    -> [err |-> "http 400: unsupported field type: ptr", val |-> cur]
      [] Kind(t) = "struct" -> [err |-> "http 400: unsupported field type: struct", val |-> cur]
      [] Kind(t) = "array"  -> [err |-> "http 400: unsupported field type: array", val |-> cur]
      [] Kind(t) = "slice"  -> [err |-> "http 400: unsupported field type: slice", val |-> cur]

-----------------------------------------------------------------------------
(* Struct fields and tags.  A field is [Name, Type, form, query, json,     *)
(* CanSet]; a raw tag is its text cut at the commas: <<>> is no tag,       *)
(* <<"name", ",", "omitempty">> is `name,omitempty`.                       *)

maxFieldLength == 10000

maxFileSize == 52428800

\* strings.ToLower on the field names of the model
ToLower(name) ==
    CASE name = "Name" -> "name"   [] name = "Age" -> "age"     [] name = "Tags" -> "tags"
      [] name = "Nums" -> "nums"   [] name = "Count" -> "count" [] name = "Title" -> "title"
      [] name = "File" -> "file"   [] name = "Files" -> "files" [] name = "Big" -> "big"
      [] name = "Active" -> "active" [] name = "Scores" -> "scores" [] name = "hidden" -> "hidden"
      [] name = "Nick" -> "nick"
      [] name = "Alpha" -> "alpha" [] name = "Beta" -> "beta"   [] name = "Gamma" -> "gamma"
      [] name = "Delta" -> "delta"
      [] name = "Ratio" -> "ratio" [] name = "Level" -> "level" [] name = "Marks" -> "marks"
      [] name = "Pair" -> "pair"

\* strings.Split(raw, ",")[0]
SplitFirst(raw) == IF raw = <<>> \/ raw[1] = "," THEN "" ELSE raw[1]

\* tagName taking "-" for a name
RECURSIVE tagNameTakingDash(_, _)
tagNameTakingDash(field, keys) ==
    IF keys = <<>> THEN ToLower(field.Name)
    ELSE IF SplitFirst(field[keys[1]]) # ""
         THEN SplitFirst(field[keys[1]])
         ELSE tagNameTakingDash(field, Tail(keys))

\* binder.go 170-182
RECURSIVE tagName(_, _)
tagName(field, keys) ==
    IF keys = <<>> THEN ToLower(field.Name)
    ELSE LET raw == field[keys[1]]
         IN  IF raw # <<>> /\ raw # <<"-">> /\ SplitFirst(raw) # "" /\ SplitFirst(raw) # "-"
             THEN SplitFirst(raw)
             ELSE tagName(field, Tail(keys))

\* url.Values.Get
Get(values, key) == IF key \in DOMAIN values /\ values[key] # <<>> THEN values[key][1] ELSE <<>>

\* values[key] of a Go map: the empty list when the key is absent
Lookup(values, key) == IF key \in DOMAIN values THEN values[key] ELSE <<>>

TooLong(name) == NewHTTPError(StatusBadRequest, "field value too long: ", <<name>>, "")

InvalidValue(name, cause) == NewHTTPError(StatusBadRequest, "invalid value for field ", <<name>>, cause)

Min(a, b) == IF a < b THEN a ELSE b

\* the array branch clearing the elements it has no value for
RECURSIVE bindArrayClearing(_, _, _, _, _)
bindArrayClearing(field, t, cur, vals, j) ==
    IF j > Min(ArrayLen(t), Len(vals))
    THEN [err |-> NilErr,
          val |-> [k \in 1..ArrayLen(t) |-> IF k < j THEN cur[k] ELSE Zero(Elem(t))]]
    ELSE IF Len(vals[j]) > maxFieldLength THEN [err |-> TooLong(field.Name), val |-> cur]
    ELSE With(setField(Elem(t), cur[j], vals[j]), LAMBDA r :
             IF r.err # "" THEN [err |-> InvalidValue(field.Name, r.err), val |-> cur]
             ELSE bindArrayClearing(field, t, [cur EXCEPT ![j] = r.val], vals, j + 1))

\* binder.go 224-242: the array branch, from element j on; [err, val]
RECURSIVE bindArray(_, _, _, _, _)
bindArray(field, t, cur, vals, j) ==
    IF j > Min(ArrayLen(t), Len(vals)) THEN [err |-> NilErr, val |-> cur]
    ELSE IF Len(vals[j]) > maxFieldLength THEN [err |-> TooLong(field.Name), val |-> cur]
    ELSE With(setField(Elem(t), cur[j], vals[j]), LAMBDA r :
             IF r.err # "" THEN [err |-> InvalidValue(field.Name, r.err), val |-> cur]
             ELSE bindArray(field, t, [cur EXCEPT ![j] = r.val], vals, j + 1))

\* the slice branch refusing a value of exactly maxFieldLength characters
RECURSIVE bindSliceOffByOne(_, _, _, _, _, _)
bindSliceOffByOne(field, t, cur, vals, out, j) ==
    IF j > Len(vals) THEN [err |-> NilErr, val |-> [isNil |-> FALSE, elems |-> out]]
    ELSE IF Len(vals[j]) >= maxFieldLength THEN [err |-> TooLong(field.Name), val |-> cur]
    ELSE With(setField(Elem(t), Zero(Elem(t)), vals[j]), LAMBDA r :
             IF r.err # "" THEN [err |-> InvalidValue(field.Name, r.err), val |-> cur]
             ELSE bindSliceOffByOne(field, t, cur, vals, Append(out, r.val), j + 1))

\* the slice branch putting each value in front of those before it
RECURSIVE bindSlicePrepending(_, _, _, _, _, _)
bindSlicePrepending(field, t, cur, vals, out, j) ==
    IF j > Len(vals) THEN [err |-> NilErr, val |-> [isNil |-> FALSE, elems |-> out]]
    ELSE IF Len(vals[j]) > maxFieldLength THEN [err |-> TooLong(field.Name), val |-> cur]
    ELSE With(setField(Elem(t), Zero(Elem(t)), vals[j]), LAMBDA r :
             IF r.err # "" THEN [err |-> InvalidValue(field.Name, r.err), val |-> cur]
             ELSE bindSlicePrepending(field, t, cur, vals, <<r.val>> \o out, j + 1))

\* the slice branch assigning the elements converted so far when a value fails
RECURSIVE bindSliceKeepingPartial(_, _, _, _, _, _)
bindSliceKeepingPartial(field, t, cur, vals, out, j) ==
    IF j > Len(vals) THEN [err |-> NilErr, val |-> [isNil |-> FALSE, elems |-> out]]
    ELSE IF Len(vals[j]) > maxFieldLength
    THEN [err |-> TooLong(field.Name), val |-> [isNil |-> FALSE, elems |-> out]]
    ELSE With(setField(Elem(t), Zero(Elem(t)), vals[j]), LAMBDA r :
             IF r.err # ""
             THEN [err |-> InvalidValue(field.Name, r.err), val |-> [isNil |-> FALSE, elems |-> out]]
             ELSE bindSliceKeepingPartial(field, t, cur, vals, Append(out, r.val), j + 1))

\* binder.go 245-268: the slice branch, from value j on with out built so far; [err, val]
RECURSIVE bindSlice(_, _, _, _, _, _)
bindSlice(field, t, cur, vals, out, j) ==
    IF j > Len(vals) THEN [err |-> NilErr, val |-> [isNil |-> FALSE, elems |-> out]]
    ELSE IF Len(vals[j]) > maxFieldLength THEN [err |-> TooLong(field.Name), val |-> cur]
    ELSE With(setField(Elem(t), Zero(Elem(t)), vals[j]), LAMBDA r :
             IF r.err # "" THEN [err |-> InvalidValue(field.Name, r.err), val |-> cur]
             ELSE bindSlice(field, t, cur, vals, Append(out, r.val), j + 1))

\* the scalar branch converting the empty string like any other value
bindFieldConvertingEmpty(field, t, cur, values, tag) ==
    IF Kind(t) = "array"
    THEN IF Len(Lookup(values, tag)) = 0 THEN [err |-> NilErr, val |-> cur]
         ELSE bindArray(field, t, cur, Lookup(values, tag), 1)
    ELSE IF Kind(t) = "slice"
    THEN IF Len(Lookup(values, tag)) = 0 THEN [err |-> NilErr, val |-> cur]
         ELSE bindSlice(field, t, cur, Lookup(values, tag), <<>>, 1)
    ELSE IF Lookup(values, tag) = <<>> THEN [err |-> NilErr, val |-> cur]
    ELSE IF Len(Get(values, tag)) > maxFieldLength THEN [err |-> TooLong(field.Name), val |-> cur]
    ELSE With(setField(t, cur, Get(values, tag)), LAMBDA r :
             IF r.err # "" THEN [err |-> InvalidValue(field.Name, r.err), val |-> cur]
             ELSE [err |-> NilErr, val |-> r.val])

\* binder.go 223-284: one field after the pointer was dereferenced; [err, val]
bindField(field, t, cur, values, tag) ==
    IF Kind(t) = "array"
    THEN IF Len(Lookup(values, tag)) = 0 THEN [err |-> NilErr, val |-> cur]
         ELSE bindArray(field, t, cur, Lookup(values, tag), 1)
    ELSE IF Kind(t) = "slice"
    THEN IF Len(Lookup(values, tag)) = 0 THEN [err |-> NilErr, val |-> cur]
         ELSE bindSlice(field, t, cur, Lookup(values, tag), <<>>, 1)
    ELSE LET valueStr == Get(values, tag)
         IN  IF valueStr = <<>> THEN [err |-> NilErr, val |-> cur]
             ELSE IF Len(valueStr) > maxFieldLength THEN [err |-> TooLong(field.Name), val |-> cur]
             ELSE With(setField(t, cur, valueStr), LAMBDA r :
                      IF r.err # "" THEN [err |-> InvalidValue(field.Name, r.err), val |-> cur]
                      ELSE [err |-> NilErr, val |-> r.val])

\* binder.go 216-221: a nil pointer field is set to a new zero value of its element type
derefAlloc(t, cur) == IF Kind(t) = "ptr" /\ cur = <<>> THEN <<Zero(Elem(t))>> ELSE cur

\* binder.go 204-285: the loop over the fields, from field i on; [err, dst]
RECURSIVE bindLoop(_, _, _, _)
bindLoop(values, T, d, i) ==
    IF i > Len(T) THEN [err |-> NilErr, dst |-> d]
    ELSE IF ~T[i].CanSet THEN bindLoop(values, T, d, i + 1)
    ELSE LET field == T[i]
             tag   == tagName(field, <<"form", "query", "json">>)
             isPtr == Kind(field.Type) = "ptr"
             held  == derefAlloc(field.Type, d[i])
         IN  With(bindField(field, IF isPtr THEN Elem(field.Type) ELSE field.Type,
                            IF isPtr THEN held[1] ELSE held, values, tag), LAMBDA r :
             With([d EXCEPT ![i] = IF isPtr THEN <<r.val>> ELSE r.val], LAMBDA d1 :
                 IF ~IsNil(r.err) THEN [err |-> r.err, dst |-> d1]
                 ELSE bindLoop(values, T, d1, i + 1)))

\* bindValues assigning through whatever it is handed, without the two checks of dst
bindValuesUnchecked(values, shape, T, d) ==
    bindLoop(values, T, d, 1)

\* bindValues(values, dst): [err, dst]
bindValues(values, shape, T, d) ==
    IF shape \in {"struct", "nil"}
    THEN [err |-> NewHTTPError(StatusBadRequest, "dst must be a pointer", <<>>, ""), dst |-> d]
    ELSE IF shape # "ptrStruct"
    THEN [err |-> NewHTTPError(StatusBadRequest, "dst must be a pointer to struct", <<>>, ""), dst |-> d]
    ELSE bindLoop(values, T, d, 1)

\* the size check refusing a file of exactly maxFileSize bytes
FirstTooLargeOffByOne(headers) ==
    IF \E k \in 1..Len(headers) : headers[k].Size >= maxFileSize
    THEN CHOOSE k \in 1..Len(headers) :
            /\ headers[k].Size >= maxFileSize
            /\ \A l \in 1..(k-1) : headers[l].Size < maxFileSize
    ELSE 0

\* binder.go 320-324: the first header over the size limit, 0 if none
FirstTooLarge(headers) ==
    IF \E k \in 1..Len(headers) : headers[k].Size > maxFileSize
    THEN CHOOSE k \in 1..Len(headers) :
            /\ headers[k].Size > maxFileSize
            /\ \A l \in 1..(k-1) : headers[l].Size <= maxFileSize
    ELSE 0

\* a nil *multipart.FileHeader in a list of file headers
NilHeader == [Nil |-> TRUE]

\* the first nil header of a list, 0 if none
FirstNil(headers) ==
    IF \E k \in 1..Len(headers) : headers[k] = NilHeader
    THEN CHOOSE k \in 1..Len(headers) :
            /\ headers[k] = NilHeader
            /\ \A l \in 1..(k-1) : headers[l] # NilHeader
    ELSE 0

\* the headers the size check reads before it dereferences a nil one
BeforeNil(headers) ==
    IF FirstNil(headers) = 0 THEN headers ELSE SubSeq(headers, 1, FirstNil(headers) - 1)

\* the single file handle taking the file uploaded last
lastHeader(headers) == <<headers[Len(headers)]>>

\* binder.go 328: reflect.ValueOf(fileHeaders[0]), the pointer a single file handle is set to
firstHeader(headers) == <<headers[1]>>

\* binder.go 332: reflect.ValueOf(fileHeaders), the slice a sequence of file handles is set to
allHeaders(headers) == [isNil |-> FALSE, elems |-> [k \in 1..Len(headers) |-> <<headers[k]>>]]

\* binder.go 303-334: the loop over the fields, from field i on; [err, dst, panic].
\* header.Size of a nil header (321) is a nil pointer dereference: the function has no
\* deferred recover, so the panic leaves it with the fields set so far
RECURSIVE filesLoop(_, _, _, _)
filesLoop(files, T, d, i) ==
    IF i > Len(T) THEN [err |-> NilErr, dst |-> d, panic |-> FALSE]
    ELSE IF ~T[i].CanSet THEN filesLoop(files, T, d, i + 1)
    ELSE LET field   == T[i]
             tag     == tagName(field, <<"form">>)
             headers == Lookup(files, tag)
             big     == FirstTooLarge(BeforeNil(headers))
         IN  IF Len(headers) = 0 THEN filesLoop(files, T, d, i + 1)
             ELSE IF big # 0
             THEN [err |-> NewHTTPError(StatusBadRequest, "file too large: ", headers[big].Filename, ""),
                   dst |-> d, panic |-> FALSE]
             ELSE IF FirstNil(headers) # 0
             THEN [err |-> NilErr, dst |-> d, panic |-> TRUE]
             ELSE IF field.Type = "*multipart.FileHeader"
             THEN filesLoop(files, T, [d EXCEPT ![i] = firstHeader(headers)], i + 1)
             ELSE IF field.Type = "[]*multipart.FileHeader"
             THEN filesLoop(files, T, [d EXCEPT ![i] = allHeaders(headers)], i + 1)
             ELSE filesLoop(files, T, d, i + 1)

\* bindFiles refusing a form without a file for a file-handle field
bindFilesRequiringFile(files, shape, T, d) ==
    IF shape # "ptrStruct" THEN [err |-> NilErr, dst |-> d, panic |-> FALSE]
    ELSE IF \E i \in 1..Len(T) : /\ T[i].Type \in {"*multipart.FileHeader", "[]*multipart.FileHeader"}
                                 /\ Lookup(files, tagName(T[i], <<"form">>)) = <<>>
    THEN [err |-> NewHTTPError(StatusBadRequest, "failed to get file: ", <<>>, "http: no such file"),
          dst |-> d, panic |-> FALSE]
    ELSE filesLoop(files, T, d, 1)

\* bindFiles(files, dst): [err, dst]
bindFiles(files, shape, T, d) ==
    IF shape # "ptrStruct" THEN [err |-> NilErr, dst |-> d, panic |-> FALSE]
    ELSE filesLoop(files, T, d, 1)

-----------------------------------------------------------------------------
(* encoding/json and encoding/xml, as far as Binder.JSON and Binder.XML    *)
(* use them: Decode of one flat object / one flat element into a struct    *)
(* of string and integer fields.  The body is a sequence of tokens.        *)

\* the characters of a token that carries text
TokChars(tok) ==
    CASE tok \in {"\"John\"", "John"} -> <<"J", "o", "h", "n">>
      [] tok \in {"\"Al\"", "Al"}     -> <<"A", "l">>
      [] tok = "25"                   -> <<"2", "5">>
      [] tok = "300"                  -> <<"3", "0", "0">>
      [] tok = "2.5"                  -> <<"2", ".", "5">>
      [] OTHER                        -> <<>>

\* the kind of a token, read as JSON
jsonKind(tok) ==
    CASE tok = "{" -> "lbrace" [] tok = "}" -> "rbrace" [] tok = "," -> "comma" [] tok = ":" -> "colon"
      [] tok \in {"\"name\"", "\"age\"", "\"extra\"", "\"John\"", "\"Al\""} -> "string"
      [] tok \in {"25", "300", "2.5"} -> "number"
      [] tok = "null" -> "null"
      [] OTHER -> "invalid"

\* the member name a JSON string token spells
jsonKey(tok) ==
    CASE tok = "\"name\"" -> "name" [] tok = "\"age\"" -> "age" [] tok = "\"extra\"" -> "extra"
      [] OTHER -> "?"

\* the error Decode returns when the input ends at token position pos
endOfInput(b, pos) ==
    IF b.readErr THEN "http: request body too large"
    ELSE IF pos = 1 THEN "EOF" ELSE "unexpected EOF"

\* json.Decoder.readValue: scans the first value of the stream.
\* [err, members]: err = "" and the object's members <<key token, value token>>, or the syntax error.
\* st is the scanner state: what may come next.
RECURSIVE jsonScan(_, _, _, _)
jsonScan(b, pos, st, members) ==
    IF pos > Len(b.data) THEN [err |-> endOfInput(b, pos), members |-> members, scalar |-> ""]
    ELSE LET tok == b.data[pos]
             k   == jsonKind(tok)
             bad == [err |-> "invalid character", members |-> members, scalar |-> ""]
         IN  CASE st = "value" ->
                    IF k = "lbrace" THEN jsonScan(b, pos + 1, "keyOrEnd", members)
                    ELSE IF k \in {"string", "number", "null"}
                         THEN [err |-> "", members |-> members, scalar |-> k]
                         ELSE bad
               [] st = "keyOrEnd" ->
                    IF k = "rbrace" THEN [err |-> "", members |-> members, scalar |-> ""]
                    ELSE IF k = "string" THEN jsonScan(b, pos + 1, "colon", Append(members, <<tok>>))
                    ELSE bad
               [] st = "key" ->
                    IF k = "string" THEN jsonScan(b, pos + 1, "colon", Append(members, <<tok>>))
                    ELSE bad
               [] st = "colon" ->
                    IF k = "colon" THEN jsonScan(b, pos + 1, "memberValue", members) ELSE bad
               [] st = "memberValue" ->
                    IF k \in {"string", "number", "null"}
                    THEN jsonScan(b, pos + 1, "commaOrEnd",
                                  [members EXCEPT ![Len(members)] = Append(@, tok)])
                    ELSE bad
               [] st = "commaOrEnd" ->
                    IF k = "rbrace" THEN [err |-> "", members |-> members, scalar |-> ""]
                    ELSE IF k = "comma" THEN jsonScan(b, pos + 1, "key", members)
                    ELSE bad

\* the index of the settable field a JSON member or XML element named key goes to, 0 if none
fieldFor(T, tagKey, key) ==
    LET named(i) == /\ T[i].CanSet
                    /\ T[i][tagKey] # <<"-">>
                    /\ IF SplitFirst(T[i][tagKey]) # "" THEN SplitFirst(T[i][tagKey]) = key
                       ELSE IF tagKey = "json" THEN ToLower(T[i].Name) = ToLower(key)
                       ELSE T[i].Name = key
    IN  IF \E i \in 1..Len(T) : named(i) THEN CHOOSE i \in 1..Len(T) : named(i) ELSE 0

\* the value a JSON token gives a field of type t: [ok, val]
jsonValue(t, cur, tok) ==
    CASE jsonKind(tok) = "null" -> [ok |-> TRUE, val |-> cur]
      [] jsonKind(tok) = "string" /\ Kind(t) = "string" -> [ok |-> TRUE, val |-> TokChars(tok)]
      [] jsonKind(tok) = "number" /\ Kind(t) \in IntKinds ->
            With(ParseInt(TokChars(tok)), LAMBDA p :
                IF p.err # "" \/ OverflowInt(Kind(t), p.val) THEN [ok |-> FALSE, val |-> cur]
                ELSE [ok |-> TRUE, val |-> p.val])
      [] OTHER -> [ok |-> FALSE, val |-> cur]

\* json: the object's members assigned in order; the first type error is kept and returned at the end
RECURSIVE jsonAssign(_, _, _, _, _)
jsonAssign(T, d, members, j, firstErr) ==
    IF j > Len(members) THEN [err |-> firstErr, dst |-> d]
    ELSE With(fieldFor(T, "json", jsonKey(members[j][1])), LAMBDA i :
             IF i = 0 THEN jsonAssign(T, d, members, j + 1, firstErr)
             ELSE With(jsonValue(T[i].Type, d[i], members[j][2]), LAMBDA r :
                      IF r.ok THEN jsonAssign(T, [d EXCEPT ![i] = r.val], members, j + 1, firstErr)
                      ELSE jsonAssign(T, d, members, j + 1,
                                      IF firstErr = "" THEN "json: cannot unmarshal" ELSE firstErr)))

\* json.NewDecoder(body).Decode(dst): [err, dst]
jsonDecode(b, shape, T, d) ==
    With(jsonScan(b, 1, "value", <<>>), LAMBDA s :
        IF s.err # "" THEN [err |-> s.err, dst |-> d]
        ELSE IF shape \in {"struct", "nil", "nilPtr"}
        THEN [err |-> "json: Unmarshal(non-pointer or nil)", dst |-> d]
        ELSE IF shape = "ptrInt" THEN [err |-> "json: cannot unmarshal", dst |-> d]
        ELSE IF s.scalar = "null" THEN [err |-> "", dst |-> d]
        ELSE IF s.scalar # "" THEN [err |-> "json: cannot unmarshal", dst |-> d]
        ELSE jsonAssign(T, d, s.members, 1, ""))

\* the kind of a token, read as XML
xmlKind(tok) ==
    CASE tok \in {"<User>", "<Name>", "<Age>", "<Extra>"} -> "start"
      [] tok \in {"</User>", "</Name>", "</Age>", "</Extra>"} -> "end"
      [] tok \in {"John", "Al", "25", "300", "2.5"} -> "text"
      [] OTHER -> "invalid"

\* the element name of a start or end tag
xmlName(tok) ==
    CASE tok \in {"<User>", "</User>"} -> "User" [] tok \in {"<Name>", "</Name>"} -> "Name"
      [] tok \in {"<Age>", "</Age>"} -> "Age"    [] tok \in {"<Extra>", "</Extra>"} -> "Extra"
      [] OTHER -> "?"

\* the value character data gives a field of type t: [ok, val]
xmlValue(t, cur, chars) ==
    CASE Kind(t) = "string" -> [ok |-> TRUE, val |-> chars]
      [] Kind(t) \in IntKinds ->
            With(ParseInt(chars), LAMBDA p :
                IF p.err # "" \/ OverflowInt(Kind(t), p.val) THEN [ok |-> FALSE, val |-> cur]
                ELSE [ok |-> TRUE, val |-> p.val])
      [] OTHER -> [ok |-> FALSE, val |-> cur]

\* xml: the children of the root element, from token pos on; assigns as it reads and
\* stops at the first error
RECURSIVE xmlChildren(_, _, _, _, _)
xmlChildren(b, pos, root, T, d) ==
    IF pos > Len(b.data) THEN [err |-> endOfInput(b, pos), dst |-> d]
    ELSE LET tok == b.data[pos]
             k   == xmlKind(tok)
         IN  IF k = "text" THEN xmlChildren(b, pos + 1, root, T, d)
             ELSE IF k = "end"
             THEN IF xmlName(tok) = root THEN [err |-> "", dst |-> d]
                  ELSE [err |-> "XML syntax error", dst |-> d]
             ELSE IF k = "invalid" THEN [err |-> "XML syntax error", dst |-> d]
             ELSE LET hasText == pos + 1 <= Len(b.data) /\ xmlKind(b.data[pos + 1]) = "text"
                      chars   == IF hasText THEN TokChars(b.data[pos + 1]) ELSE <<>>
                      close   == IF hasText THEN pos + 2 ELSE pos + 1
                  IN  IF close > Len(b.data) THEN [err |-> endOfInput(b, close), dst |-> d]
                      ELSE IF xmlKind(b.data[close]) # "end" \/ xmlName(b.data[close]) # xmlName(tok)
                      THEN [err |-> "XML syntax error", dst |-> d]
                      ELSE With(fieldFor(T, "xml", xmlName(tok)), LAMBDA i :
                           IF i = 0 THEN xmlChildren(b, close + 1, root, T, d)
                           ELSE With(xmlValue(T[i].Type, d[i], chars), LAMBDA r :
                               IF ~r.ok THEN [err |-> "strconv.ParseInt: invalid syntax", dst |-> d]
                               ELSE xmlChildren(b, close + 1, root, T, [d EXCEPT ![i] = r.val])))

\* xml.NewDecoder(body).Decode(dst) for dst a pointer to a struct of type T: [err, dst]
xmlDecode(b, T, d) ==
    IF b.data = <<>> THEN [err |-> endOfInput(b, 1), dst |-> d]
    ELSE IF xmlKind(b.data[1]) # "start" THEN [err |-> "XML syntax error", dst |-> d]
    ELSE xmlChildren(b, 2, xmlName(b.data[1]), T, d)

-----------------------------------------------------------------------------
(* Binder: binder.go.  Each method is an operator from the request and the *)
(* destination to its outcome [err, dst, reads, closes, mem]: the error    *)
(* returned, the destination afterwards, how often the body stream was     *)
(* read and closed, and the maxMemory passed to ParseMultipartForm (0 when *)
(* it is not called).                                                      *)

EmptyBody == NewHTTPError(StatusBadRequest, "request body is empty", <<>>, "")

\* 32 << 20
defaultMaxMemory == 33554432

Outcome(e, d, reads, closes) ==
    [err |-> e, dst |-> d, reads |-> reads, closes |-> closes, mem |-> 0, panic |-> FALSE,
     header |-> <<>>]

\* what xml.Unmarshal makes of a dst that is not a pointer to a struct, "" for a pointer to a struct
shapeError(shape) ==
    CASE shape = "ptrStruct" -> ""
      [] shape = "ptrInt" -> "xml: unknown type int"
      [] OTHER -> "non-pointer passed to Unmarshal"

\* Binder.JSON returning nil where the decoder failed
JSONDroppingDecodeError(b, shape, T, d) ==
    IF ~b.present THEN Outcome(EmptyBody, d, 0, 0)
    ELSE With(jsonDecode(b, shape, T, d), LAMBDA r : Outcome(NilErr, r.dst, 1, 1))

\* Binder.JSON
JSON(b, shape, T, d) ==
    IF ~b.present THEN Outcome(EmptyBody, d, 0, 0)
    ELSE With(jsonDecode(b, shape, T, d), LAMBDA r :
             IF r.err # ""
             THEN Outcome(NewHTTPError(StatusBadRequest, "invalid JSON: ", <<>>, r.err), r.dst, 1, 1)
             ELSE Outcome(NilErr, r.dst, 1, 1))

\* Binder.XML
XML(b, shape, T, d) ==
    IF ~b.present THEN Outcome(EmptyBody, d, 0, 0)
    ELSE With(IF shapeError(shape) # "" THEN [err |-> shapeError(shape), dst |-> d]
              ELSE xmlDecode(b, T, d), LAMBDA r :
             IF r.err # ""
             THEN Outcome(NewHTTPError(StatusBadRequest, "invalid XML: ", <<>>, r.err), r.dst, 1, 1)
             ELSE Outcome(NilErr, r.dst, 1, 1))

\* Binder.readBodySafe returning on a read error before the body is closed
readBodySafeLeavingOpen(b) ==
    IF ~b.present THEN [err |-> EmptyBody, data |-> <<>>, reads |-> 0, closes |-> 0]
    ELSE IF b.readErr
    THEN [err |-> NewHTTPError(StatusBadRequest, "failed to read body: ", <<>>,
                               "http: request body too large"),
          data |-> <<>>, reads |-> 1, closes |-> 0]
    ELSE [err |-> NilErr, data |-> b.data, reads |-> 1, closes |-> 1]

\* Binder.readBodySafe: [err, data, reads, closes]
readBodySafe(b) ==
    IF ~b.present THEN [err |-> EmptyBody, data |-> <<>>, reads |-> 0, closes |-> 0]
    ELSE IF b.readErr
    THEN [err |-> NewHTTPError(StatusBadRequest, "failed to read body: ", <<>>,
                               "http: request body too large"),
          data |-> <<>>, reads |-> 1, closes |-> 1]
    ELSE [err |-> NilErr, data |-> b.data, reads |-> 1, closes |-> 1]

\* Binder.Text
Text(b, d) ==
    LET r == readBodySafe(b)
    IN  IF ~IsNil(r.err) THEN Outcome(r.err, d, r.reads, r.closes)
        ELSE Outcome(NilErr, r.data, r.reads, r.closes)

\* Binder.Bytes storing what was read whether or not the read failed
BytesStoringOnError(b, d) ==
    LET r == readBodySafe(b)
    IN  Outcome(r.err, r.data, r.reads, r.closes)

\* Binder.Bytes
Bytes(b, d) ==
    LET r == readBodySafe(b)
    IN  IF ~IsNil(r.err) THEN Outcome(r.err, d, r.reads, r.closes)
        ELSE Outcome(NilErr, r.data, r.reads, r.closes)

\* Binder.Query returning nil whatever bindValues returned
QueryDroppingError(q, shape, T, d) ==
    With(bindValues(q, shape, T, d), LAMBDA r : Outcome(NilErr, r.dst, 0, 0))

\* Binder.Query
Query(q, shape, T, d) ==
    With(bindValues(q, shape, T, d), LAMBDA r : Outcome(r.err, r.dst, 0, 0))

\* the body read by (*http.Request).ParseForm and ParseMultipartForm, which never close it
parseReads(b) == IF b.present THEN 1 ELSE 0

\* Binder.Form
Form(b, f, shape, T, d) ==
    IF f.err
    THEN Outcome(NewHTTPError(StatusBadRequest, "invalid form data: ", <<>>, "parse error"),
                 d, parseReads(b), 0)
    ELSE With(bindValues(f.Value, shape, T, d), LAMBDA r : Outcome(r.err, r.dst, parseReads(b), 0))

\* the body read by ParseMultipartForm, which returns at once for a request whose
\* MultipartForm is set already (only such a form holds a nil header)
multipartReads(b, f) ==
    IF \E key \in DOMAIN f.File : FirstNil(f.File[key]) # 0 THEN 0 ELSE parseReads(b)

\* Binder.MultipartForm
MultipartForm(b, f, shape, T, d, maxMemory) ==
    LET mem == IF maxMemory = 0 THEN defaultMaxMemory ELSE maxMemory
    IN  IF f.err
        THEN [Outcome(NewHTTPError(StatusBadRequest, "invalid multipart form: ", <<>>, "parse error"),
                      d, parseReads(b), 0) EXCEPT !.mem = mem]
        ELSE With(bindValues(f.Value, shape, T, d), LAMBDA r :
                 IF ~IsNil(r.err) THEN [Outcome(r.err, r.dst, multipartReads(b, f), 0) EXCEPT !.mem = mem]
                 ELSE With(bindFiles(f.File, shape, T, r.dst), LAMBDA g :
                          [Outcome(g.err, g.dst, multipartReads(b, f), 0)
                              EXCEPT !.mem = mem, !.panic = g.panic]))

\* Binder.File with a status of 500 for the file that is not there
FileMissingAsServerError(b, f, name, d) ==
    IF f.err \/ Len(Lookup(f.File, name)) = 0
    THEN [Outcome(NewHTTPError(500, "failed to get file: ", <<>>, "http: no such file"),
                  d, multipartReads(b, f), 0) EXCEPT !.mem = defaultMaxMemory]
    ELSE [Outcome(NilErr, d, multipartReads(b, f), 0)
             EXCEPT !.mem = defaultMaxMemory, !.header = <<Lookup(f.File, name)[1]>>]

\* Binder.File: (*http.Request).FormFile parses the form with 32 MiB, opens the first file
\* under the name and returns its header; a nil first header panics in Open
File(b, f, name, d) ==
    IF f.err
    THEN [Outcome(NewHTTPError(StatusBadRequest, "failed to get file: ", <<>>, "parse error"),
                  d, parseReads(b), 0) EXCEPT !.mem = defaultMaxMemory]
    ELSE IF Len(Lookup(f.File, name)) = 0
    THEN [Outcome(NewHTTPError(StatusBadRequest, "failed to get file: ", <<>>, "http: no such file"),
                  d, multipartReads(b, f), 0) EXCEPT !.mem = defaultMaxMemory]
    ELSE IF Lookup(f.File, name)[1] = NilHeader
    THEN [Outcome(NilErr, d, multipartReads(b, f), 0) EXCEPT !.mem = defaultMaxMemory, !.panic = TRUE]
    ELSE [Outcome(NilErr, d, multipartReads(b, f), 0)
             EXCEPT !.mem = defaultMaxMemory, !.header = <<Lookup(f.File, name)[1]>>]

ctJSON == <<"a","p","p","l","i","c","a","t","i","o","n","/","j","s","o","n">>  \* "application/json"

ctForm == <<"a","p","p","l","i","c","a","t","i","o","n","/","x","-","w","w","w","-","f","o","r","m","-","u","r","l","e","n","c","o","d","e","d">>
    \* "application/x-www-form-urlencoded"

ctMultipart == <<"m","u","l","t","i","p","a","r","t","/","f","o","r","m","-","d","a","t","a">>  \* "multipart/form-data"

ctXML == <<"a","p","p","l","i","c","a","t","i","o","n","/","x","m","l">>  \* "application/xml"

ctTextXML == <<"t","e","x","t","/","x","m","l">>  \* "text/xml"

\* Binder.Auto without the text/xml case
AutoWithoutTextXML(ct, b, f, shape, T, d) ==
    CASE HasPrefix(ct, ctJSON) -> JSON(b, shape, T, d)
      [] ~HasPrefix(ct, ctJSON) /\ HasPrefix(ct, ctForm) -> Form(b, f, shape, T, d)
      [] ~HasPrefix(ct, ctJSON) /\ ~HasPrefix(ct, ctForm) /\ HasPrefix(ct, ctMultipart) ->
            MultipartForm(b, f, shape, T, d, defaultMaxMemory)
      [] ~HasPrefix(ct, ctJSON) /\ ~HasPrefix(ct, ctForm) /\ ~HasPrefix(ct, ctMultipart)
            /\ HasPrefix(ct, ctXML) -> XML(b, shape, T, d)
      [] OTHER -> Outcome(NewHTTPError(StatusUnsupportedMediaType, "unsupported content type: ", ct, ""),
                          d, 0, 0)

\* Binder.Auto
Auto(ct, b, f, shape, T, d) ==
    CASE HasPrefix(ct, ctJSON) -> JSON(b, shape, T, d)
      [] ~HasPrefix(ct, ctJSON) /\ HasPrefix(ct, ctForm) -> Form(b, f, shape, T, d)
      [] ~HasPrefix(ct, ctJSON) /\ ~HasPrefix(ct, ctForm) /\ HasPrefix(ct, ctMultipart) ->
            MultipartForm(b, f, shape, T, d, defaultMaxMemory)
      [] ~HasPrefix(ct, ctJSON) /\ ~HasPrefix(ct, ctForm) /\ ~HasPrefix(ct, ctMultipart)
            /\ (HasPrefix(ct, ctXML) \/ HasPrefix(ct, ctTextXML)) -> XML(b, shape, T, d)
      [] OTHER -> Outcome(NewHTTPError(StatusUnsupportedMediaType, "unsupported content type: ", ct, ""),
                          d, 0, 0)

-----------------------------------------------------------------------------
(* The App: app.go.  New applies the configuration; wrapHandler puts the   *)
(* body limit on the request body and runs the handler.                    *)

\* the unit of the body limits
MB == 1048576

StatusOK == 200

\* New(): no AppConfig given
NoConfig == [given |-> FALSE, BodyLimitSet |-> FALSE, BodyLimit |-> 0, StrictJSON |-> FALSE]

\* cfg.BodyLimit as New reads it: a field the program did not set holds the zero value
BodyLimitOf(cfg) == IF cfg.BodyLimitSet THEN cfg.BodyLimit ELSE 0

\* New(config ...AppConfig): the body limit and the strict mode of the App
New(cfg) ==
    [bodyLimit  |-> IF ~cfg.given THEN 10 * MB
                    ELSE IF BodyLimitOf(cfg) > 0 THEN BodyLimitOf(cfg)
                    ELSE IF BodyLimitOf(cfg) = 0 THEN 0
                    ELSE 10 * MB,
     strictJSON |-> IF cfg.given THEN cfg.StrictJSON ELSE FALSE]

\* the number of bytes of a token of a body
ByteLen(tok) ==
    CASE tok \in {"{", "}", ":", ","} -> 1
      [] tok \in {"25"} -> 2
      [] tok \in {"300", "2.5"} -> 3
      [] tok \in {"\"Al\"", "null"} -> 4
      [] tok \in {"\"age\""} -> 5
      [] tok \in {"\"name\"", "\"John\""} -> 6
      [] OTHER -> 7

\* the number of bytes of a body
RECURSIVE Size(_)
Size(data) == IF data = <<>> THEN 0 ELSE ByteLen(data[1]) + Size(Tail(data))

\* the tokens that lie whole within the first n bytes of a body
RECURSIVE Within(_, _)
Within(data, n) ==
    IF data = <<>> \/ ByteLen(data[1]) > n THEN <<>>
    ELSE <<data[1]>> \o Within(Tail(data), n - ByteLen(data[1]))

\* http.MaxBytesReader failing already on a body of exactly n bytes
MaxBytesReaderOffByOne(b, n) ==
    [present |-> TRUE, data |-> Within(b.data, n - 1), readErr |-> b.readErr \/ Size(b.data) >= n]

\* http.MaxBytesReader(w, r.Body, n): the stream yields the first n bytes of the body and
\* fails after them when the body has more
MaxBytesReader(b, n) ==
    [present |-> TRUE, data |-> Within(b.data, n), readErr |-> b.readErr \/ Size(b.data) > n]

\* app.go 166-168: the body the handler sees
limitBody(b, limit) == IF limit > 0 THEN MaxBytesReader(b, limit) ELSE b

\* app.go 163-175 with the handler of TestBodyLimit, which binds the JSON body and answers
\* 200, and the default error handler, which answers with the code of the HTTPError:
\* the outcome of the binding and the status written
wrapHandler(b, limit, T, d) ==
    With(JSON(limitBody(b, limit), "ptrStruct", T, d), LAMBDA o :
        [o EXCEPT !.header = <<>>] @@ [status |-> IF IsNil(o.err) THEN StatusOK ELSE o.err.Code])

-----------------------------------------------------------------------------
(* Destinations and requests of the model *)

Field(name, type, formTag, queryTag, jsonTag, xmlTag, canSet) ==
    [Name |-> name, Type |-> type, form |-> formTag, query |-> queryTag, json |-> jsonTag,
     xml |-> xmlTag, CanSet |-> canSet]

\* struct { Name string `json:"name" form:"name" xml:"Name"`; Age int `json:"age" form:"age" xml:"Age"` }
User ==
    [name |-> "User",
     fields |-> << Field("Name", "string", <<"name">>, <<>>, <<"name">>, <<"Name">>, TRUE),
                   Field("Age", "int", <<"age">>, <<>>, <<"age">>, <<"Age">>, TRUE) >>]

\* the destination of Binder.Text, a *string
StringDst == [name |-> "string", fields |-> <<>>]

\* the destination of Binder.Bytes, a *[]byte
BytesDst == [name |-> "[]byte", fields |-> <<>>]

\* struct { Name string `query:"name,omitempty"`; Age int8 `query:"age"` }
Person ==
    [name |-> "Person",
     fields |-> << Field("Name", "string", <<>>, <<"name", ",", "omitempty">>, <<>>, <<>>, TRUE),
                   Field("Age", "int8", <<>>, <<"age">>, <<>>, <<>>, TRUE) >>]

\* struct { Count uint8 `form:"count"`; Big int64 }
Limits ==
    [name |-> "Limits",
     fields |-> << Field("Count", "uint8", <<"count">>, <<>>, <<>>, <<>>, TRUE),
                   Field("Big", "int64", <<>>, <<>>, <<>>, <<>>, TRUE) >>]

\* struct { Tags []string `query:"tags"`; Scores []int8 `json:"scores"` }
Lists ==
    [name |-> "Lists",
     fields |-> << Field("Tags", "[]string", <<>>, <<"tags">>, <<>>, <<>>, TRUE),
                   Field("Scores", "[]int8", <<>>, <<>>, <<"scores">>, <<>>, TRUE) >>]

\* struct { Nick *string `query:"nick"`; Nums [2]int `query:"nums"` }
Refs ==
    [name |-> "Refs",
     fields |-> << Field("Nick", "*string", <<>>, <<"nick">>, <<>>, <<>>, TRUE),
                   Field("Nums", "[2]int", <<>>, <<"nums">>, <<>>, <<>>, TRUE) >>]

\* struct { Title string `form:"title"`; File *multipart.FileHeader `form:"file"`;
\*          Files []*multipart.FileHeader `form:"files"` }
Upload ==
    [name |-> "Upload",
     fields |-> << Field("Title", "string", <<"title">>, <<>>, <<>>, <<>>, TRUE),
                   Field("File", "*multipart.FileHeader", <<"file">>, <<>>, <<>>, <<>>, TRUE),
                   Field("Files", "[]*multipart.FileHeader", <<"files">>, <<>>, <<>>, <<>>, TRUE) >>]

\* struct { Alpha string `form:"fa" query:"qa" json:"ja"`
\*          Beta  string `form:"-" query:"qb,omitempty" json:"jb"`
\*          Gamma string `form:",omitempty" query:"-,x" json:"jc"`
\*          Delta string `json:"-"` }
Tagged ==
    [name |-> "Tagged",
     fields |-> << Field("Alpha", "string", <<"fa">>, <<"qa">>, <<"ja">>, <<>>, TRUE),
                   Field("Beta", "string", <<"-">>, <<"qb", ",", "omitempty">>, <<"jb">>, <<>>, TRUE),
                   Field("Gamma", "string", <<",", "omitempty">>, <<"-", ",", "x">>, <<"jc">>, <<>>, TRUE),
                   Field("Delta", "string", <<>>, <<>>, <<"-">>, <<>>, TRUE) >>]

\* struct { Active bool `query:"active"`; Ratio float64 `query:"ratio"`; Level int8 `query:"level"`
\*          Marks []int8 `query:"marks"`; Pair [2]string `query:"pair"` }
Flags ==
    [name |-> "Flags",
     fields |-> << Field("Active", "bool", <<>>, <<"active">>, <<>>, <<>>, TRUE),
                   Field("Ratio", "float64", <<>>, <<"ratio">>, <<>>, <<>>, TRUE),
                   Field("Level", "int8", <<>>, <<"level">>, <<>>, <<>>, TRUE),
                   Field("Marks", "[]int8", <<>>, <<"marks">>, <<>>, <<>>, TRUE),
                   Field("Pair", "[2]string", <<>>, <<"pair">>, <<>>, <<>>, TRUE) >>]

\* a value of type t that is not its zero value
RECURSIVE NonZero(_)
NonZero(t) ==
    CASE Kind(t) = "string" -> <<"o", "l", "d">>
      [] Kind(t) \in IntKinds \cup UintKinds -> 7
      [] Kind(t) = "bool" -> TRUE
      [] Kind(t) = "float64" -> [neg |-> FALSE, int |-> 7, frac |-> <<>>]
      [] Kind(t) = "ptr" -> <<NonZero(Elem(t))>>
      [] Kind(t) = "array" -> [i \in 1..ArrayLen(t) |-> NonZero(Elem(t))]
      [] Kind(t) = "slice" -> [isNil |-> FALSE, elems |-> <<NonZero(Elem(t))>>]
      [] Kind(t) = "struct" -> [Filename |-> <<"o", "l", "d">>, Size |-> 1]

ZeroStruct(T) == [i \in 1..Len(T.fields) |-> Zero(T.fields[i].Type)]

FilledStruct(T) == [i \in 1..Len(T.fields) |-> NonZero(T.fields[i].Type)]

\* the destinations a caller may pass for a destination type: a fresh one and one already filled
Destinations(T) ==
    IF T.fields = <<>> THEN {<<>>, <<"old">>} ELSE {ZeroStruct(T), FilledStruct(T)}

\* the largest number of values a request supplies
MaxVals == 3

\* all lists of at most n values drawn from pool
ListsOf(pool, n) == UNION {[1..m -> pool] : m \in 0..n}

sJo == <<"J", "o">>

s120 == <<"1", "2", "0">>

s300 == <<"3", "0", "0">>

sLong == Repeat("a", maxFieldLength + 1)

sFull == Repeat("a", maxFieldLength)

\* the values a request of the model may supply under a key
Pool(key) ==
    CASE key = "name"   -> {<<>>, sJo, sLong}
      [] key = "age"    -> {s120, s300}
      [] key = "count"  -> {<<"2", "5", "5">>, <<"2", "5", "6">>, <<"-", "1">>, <<"+", "5">>}
      [] key = "big"    -> {<<"-", "1", "2", "9">>, CutoffInt64}
      [] key = "tags"   -> {<<"a">>, <<"b">>, sFull}
      [] key = "scores" -> {<<"1">>, <<"-", "1", "2", "9">>}
      [] key = "nick"   -> {<<>>, sJo}
      [] key = "nums"   -> {<<"1">>, <<"2">>, <<"x">>, sLong}
      [] key = "title"  -> {<<"D", "o", "c">>}
      [] key = "active" -> {<<>>, <<"t">>}
      [] key = "ratio"  -> {<<>>, <<"2", ".", "5">>}
      [] key = "level"  -> {<<>>, <<"5">>}
      [] key = "marks"  -> {<<>>, <<"1">>}
      [] key = "pair"   -> {<<>>, <<"p">>}
      [] key = "fa"     -> {<<"f", "a">>}
      [] key = "qa"     -> {<<"q", "a">>}
      [] key = "ja"     -> {<<"j", "a">>}
      [] key = "qb"     -> {<<"q", "b">>}
      [] key = "jb"     -> {<<"j", "b">>}
      [] key = "jc"     -> {<<"j", "c">>}
      [] key = "-"      -> {<<"-">>}
      [] key = "beta"   -> {<<"b">>}
      [] key = "gamma"  -> {<<"g">>}
      [] key = "delta"  -> {<<"d">>}
      [] OTHER          -> {}

\* the keys a request of the model supplies values for, per destination type
KeysOf(T) ==
    CASE T.name = "Person" -> <<"name", "age">>
      [] T.name = "Limits" -> <<"count", "big">>
      [] T.name = "Lists"  -> <<"tags", "scores">>
      [] T.name = "Refs"   -> <<"nick", "nums">>
      [] T.name = "Upload" -> <<"title">>
      [] T.name = "Flags"  -> <<"active", "ratio", "level", "marks", "pair">>
      [] T.name = "Tagged" -> <<"fa", "qa", "ja", "qb", "jb", "jc", "-", "beta", "gamma", "delta">>
      [] T.name = "User"   -> <<>>

\* all mappings from the keys to lists of values of their pools, of at most n values in all
RECURSIVE ValueMaps(_, _)
ValueMaps(keys, n) ==
    IF keys = <<>> THEN {<<>>}
    ELSE UNION {{(keys[1] :> l) @@ m : l \in [1..k -> Pool(keys[1])], m \in ValueMaps(Tail(keys), n - k)} :
                   k \in 0..n}


\* the largest number of files a request uploads under one key
MaxFiles == 2

\* the uploaded files of the model: one of exactly the size limit, one a byte larger, a small one
Headers ==
    { [Filename |-> <<"a">>, Size |-> maxFileSize],
      [Filename |-> <<"b">>, Size |-> maxFileSize + 1],
      [Filename |-> <<"c">>, Size |-> 5] }

\* the files a multipart request of the model uploads, for a destination type
FileMaps(T) ==
    IF T.name = "Upload"
    THEN {("file" :> a) @@ ("files" :> b) @@ ("other" :> c) :
              a \in ListsOf(Headers, MaxFiles),
              b \in ListsOf(Headers, MaxFiles),
              c \in ListsOf({[Filename |-> <<"b">>, Size |-> maxFileSize + 1]}, 1)}
    ELSE {<<>>}

\* one upload of a small file under each key
SmallFileMaps(T) ==
    IF T.name = "Upload"
    THEN {("file" :> <<h>>) @@ ("files" :> <<h>>) @@ ("other" :> <<>>) :
              h \in {[Filename |-> <<"c">>, Size |-> 5]}}
    ELSE {<<>>}

\* what a caller can pass as dst other than a pointer to a struct: a struct by value, a nil
\* pointer to a struct, a pointer to an int, a nil interface.  The model keeps the value the
\* caller holds in dst0 and dst
OtherShapes == {"struct", "nilPtr", "ptrInt", "nil"}

\* (*http.Request).MultipartForm is a public field and ParseMultipartForm returns at once
\* when it is set: the forms a caller of the Binder put on the request itself, with a nil
\* header among the files
PresetFileMaps(T) ==
    IF T.name = "Upload"
    THEN {("file" :> a) @@ ("files" :> b) @@ ("other" :> <<>>) :
              a \in {<<>>, <<NilHeader>>, <<[Filename |-> <<"c">>, Size |-> 5]>>},
              b \in {<<NilHeader>>,
                     <<[Filename |-> <<"b">>, Size |-> maxFileSize + 1], NilHeader>>,
                     <<NilHeader, [Filename |-> <<"b">>, Size |-> maxFileSize + 1]>>}}
    ELSE {}

\* the token sequences of the bodies of the model
Bodies ==
    { <<"{", "\"name\"", ":", "\"John\"", ",", "\"age\"", ":", "25", "}">>,
      <<"{", "\"name\"", ":", "\"John\"", ",", "\"age\"", ":", "25", ",", "\"extra\"", ":", "\"Al\"", "}">>,
      <<"{", "\"name\"", ":", "\"John\"", ",", "\"age\"", ":", "25", "}", "{", "\"extra\"", ":", "\"Al\"", "}">>,
      <<"{", "\"name\"", ":", "\"John\"", "}", "garbage">>,
      <<"{", "invalid", "}">>,
      <<>>,
      <<"{", "\"name\"", ":", "\"John\"">>,
      <<"{", "\"age\"", ":", "\"John\"", ",", "\"name\"", ":", "\"Al\"", "}">>,
      <<"{", "}">>,
      <<"<User>", "<Name>", "John", "</Name>", "<Age>", "25", "</Age>", "</User>">>,
      <<"<User>", "<Name>", "John", "</Name>", "<Extra>", "Al", "</Extra>", "</User>">>,
      <<"<User>", "<Name>", "John", "</User>">>,
      <<"<User>", "<Name>", "Al", "</Name>", "</User>", "garbage">>,
      <<"<User>", "<Age>", "John", "</Age>", "</User>">>,
      <<"Hello">> }

\* b.request.Body: nil, or a stream that yields data and then ends or fails
BodyStreams ==
    {[present |-> FALSE, data |-> <<>>, readErr |-> FALSE]}
        \cup {[present |-> TRUE, data |-> d, readErr |-> e] : d \in Bodies, e \in BOOLEAN}

\* "application/json", "application/json; charset=utf-8", "application/json-seq",
\* "application/x-www-form-urlencoded", "multipart/form-data; boundary=x", "application/xml",
\* "text/xml", "text/plain", "", "text/xm"
ContentTypes ==
    { <<"a", "p", "p", "l", "i", "c", "a", "t", "i", "o", "n", "/", "j", "s", "o", "n">>,
      <<"a", "p", "p", "l", "i", "c", "a", "t", "i", "o", "n", "/", "j", "s", "o", "n", ";", " ", "c", "h", "a", "r", "s", "e", "t", "=", "u", "t", "f", "-", "8">>,
      <<"a", "p", "p", "l", "i", "c", "a", "t", "i", "o", "n", "/", "j", "s", "o", "n", "-", "s", "e", "q">>,
      <<"a", "p", "p", "l", "i", "c", "a", "t", "i", "o", "n", "/", "x", "-", "w", "w", "w", "-", "f", "o", "r", "m", "-", "u", "r", "l", "e", "n", "c", "o", "d", "e", "d">>,
      <<"m", "u", "l", "t", "i", "p", "a", "r", "t", "/", "f", "o", "r", "m", "-", "d", "a", "t", "a", ";", " ", "b", "o", "u", "n", "d", "a", "r", "y", "=", "x">>,
      <<"a", "p", "p", "l", "i", "c", "a", "t", "i", "o", "n", "/", "x", "m", "l">>,
      <<"t", "e", "x", "t", "/", "x", "m", "l">>,
      <<"t", "e", "x", "t", "/", "p", "l", "a", "i", "n">>,
      <<>>,
      <<"t", "e", "x", "t", "/", "x", "m">> }

\* what ParseForm / ParseMultipartForm yield for the requests with a body of the model
BodyForms ==
    { [err |-> TRUE, Value |-> <<>>, File |-> <<>>],
      [err |-> FALSE, Value |-> ("name" :> <<sJo>>) @@ ("age" :> <<s120>>), File |-> <<>>] }

\* 10 << 20
testMaxMemory == 10485760

-----------------------------------------------------------------------------
(* ClientIP: request.go 57-79 *)

\* strings.Index(s, c) for a one-character c: the 0-based place of its first occurrence, -1
\* when there is none
Index(s, c) ==
    IF \E k \in 1..Len(s) : s[k] = c
    THEN (CHOOSE k \in 1..Len(s) : s[k] = c /\ \A l \in 1..(k - 1) : s[l] # c) - 1
    ELSE -1

\* strings.LastIndex(s, c) for a one-character c
LastIndex(s, c) ==
    IF \E k \in 1..Len(s) : s[k] = c
    THEN (CHOOSE k \in 1..Len(s) : s[k] = c /\ \A l \in (k + 1)..Len(s) : s[l] # c) - 1
    ELSE -1

\* strings.TrimSpace(s): s without its leading and trailing white space
RECURSIVE TrimSpace(_)
TrimSpace(s) ==
    IF s # <<>> /\ s[1] = " " THEN TrimSpace(Tail1(s))
    ELSE IF s # <<>> /\ s[Len(s)] = " " THEN TrimSpace(SubSeq(s, 1, Len(s) - 1))
    ELSE s

\* ClientIP(r, trustProxy)
ClientIP(addr, realIP, xff, trust) ==
    IF trust /\ realIP # <<>> THEN realIP
    ELSE IF trust /\ xff # <<>>
    THEN IF Index(xff, ",") > 0 THEN TrimSpace(SubSeq(xff, 1, Index(xff, ",")))
         ELSE TrimSpace(xff)
    ELSE IF LastIndex(addr, ":") > 0 THEN SubSeq(addr, 1, LastIndex(addr, ":"))
    ELSE addr

\* no call of ClientIP is under way
NoClientIP ==
    /\ remoteAddr = <<>> /\ xRealIP = <<>> /\ xForwardedFor = <<>>
    /\ trustProxy = FALSE /\ clientIP = <<>>

-----------------------------------------------------------------------------
(* Routing: app.go 63-101, 163-183, router.go *)

\* a slice of Middleware is [arr, len]: arr is the place of its backing array in the heap (0 for
\* the nil slice), len its length; its capacity is the length of the backing array.  An unused
\* element of a backing array holds "", the nil func
NilSlice == [arr |-> 0, len |-> 0]

Cap(h, s) == IF s.arr = 0 THEN 0 ELSE Len(h[s.arr])

\* the elements of a slice
Read(h, s) == IF s.arr = 0 THEN <<>> ELSE SubSeq(h[s.arr], 1, s.len)

\* the small size classes of the allocator, in bytes
SizeClasses == {8, 16, 24, 32, 48, 64, 80, 96}

\* the capacity append grows a full slice of capacity oldCap to, to hold newLen elements of
\* size bytes each (runtime.growslice of the gc toolchain, below 256 elements): twice the old
\* capacity or the length asked for, rounded up to a size class
growslice(oldCap, newLen, size) ==
    With(IF newLen > 2 * oldCap THEN newLen ELSE 2 * oldCap, LAMBDA newcap :
        (CHOOSE c \in SizeClasses :
            c >= newcap * size /\ \A d \in SizeClasses : d >= newcap * size => c <= d) \div size)

\* append(s, items...): [heap, slice].  The items go into the backing array of s when its
\* capacity allows, into a new and larger array otherwise
append(h, s, items, size) ==
    IF items = <<>> THEN [heap |-> h, slice |-> s]
    ELSE IF s.len + Len(items) <= Cap(h, s)
    THEN [heap  |-> [h EXCEPT ![s.arr] = [k \in 1..Len(h[s.arr]) |->
                                            IF k > s.len /\ k <= s.len + Len(items)
                                            THEN items[k - s.len] ELSE h[s.arr][k]]],
          slice |-> [arr |-> s.arr, len |-> s.len + Len(items)]]
    ELSE [heap  |-> Append(h, [k \in 1..growslice(Cap(h, s), s.len + Len(items), size) |->
                                  IF k <= s.len THEN h[s.arr][k]
                                  ELSE IF k <= s.len + Len(items) THEN items[k - s.len]
                                  ELSE ""]),
          slice |-> [arr |-> Len(h) + 1, len |-> s.len + Len(items)]]

\* mws := make([]Middleware, len(s)); copy(mws, s): [heap, slice]
makeCopy(h, s) ==
    [heap |-> Append(h, Read(h, s)), slice |-> [arr |-> Len(h) + 1, len |-> s.len]]

\* mws := make(...); copy(mws, s); mws = append(mws, items...)
copyAppend(h, s, items, size) ==
    With(makeCopy(h, s), LAMBDA c : append(c.heap, c.slice, items, size))

\* chainMiddlewares(h, middlewares...): the chain from the outermost function to the handler;
\* the loop wraps what it has in middlewares[i], from the last i to the first
RECURSIVE chainMiddlewares(_, _)
chainMiddlewares(hd, mws) ==
    IF mws = <<>> THEN hd
    ELSE chainMiddlewares(<<mws[Len(mws)]>> \o hd, SubSeq(mws, 1, Len(mws) - 1))

\* the chain built when the request is served, from what the slice then holds
CompiledLate(h, route) == chainMiddlewares(<<"handler">>, Read(h, route.mws))

\* an error that is no *HTTPError, as errors.New makes it
PlainError == [Code |-> -1, Message |-> "failed", Arg |-> <<>>, Cause |-> ""]

IsHTTPError(e) == e.Code > 0

StatusInternalServerError == 500

\* the handler chain run on a request: [ran, err, writes].  Middleware number stopAt of the
\* chain returns stopErr without calling next, every other one returns what next returns;
\* the handler hd = [responds, ret] sends a response with c.JSON if it responds, and returns ret
RECURSIVE runChain(_, _, _, _, _)
runChain(chain, k, stopAt, stopErr, hd) ==
    IF k = Len(chain)
    THEN [ran |-> <<chain[k]>>, err |-> hd.ret,
          writes |-> IF hd.responds THEN <<StatusOK>> ELSE <<>>]
    ELSE IF k = stopAt
    THEN [ran |-> <<chain[k]>>, err |-> stopErr, writes |-> <<>>]
    ELSE With(runChain(chain, k + 1, stopAt, stopErr, hd), LAMBDA r :
             [ran |-> <<chain[k]>> \o r.ran, err |-> r.err, writes |-> r.writes])

\* the error handler answering every error with 500
defaultErrorHandlerAlways500(e) ==
    IF IsNil(e) THEN <<>> ELSE <<StatusInternalServerError>>

\* defaultErrorHandler(c, err): the codes it calls JSON, and so WriteHeader, with
defaultErrorHandler(e) ==
    IF IsNil(e) THEN <<>>
    ELSE IF IsHTTPError(e) THEN <<e.Code>>
    ELSE <<StatusInternalServerError>>

\* the function wrapHandler returns, serving a request with a chain:
\* [ran, err, writes, errorHandlerCalls]
serveChain(chain, stopAt, stopErr, hd) ==
    With(runChain(chain, 1, stopAt, stopErr, hd), LAMBDA r :
        [ran |-> r.ran, err |-> r.err,
         writes |-> IF IsNil(r.err) THEN r.writes ELSE r.writes \o defaultErrorHandler(r.err),
         errorHandlerCalls |-> IF IsNil(r.err) THEN <<>> ELSE <<r.err>>])

NoRequest ==
    [route |-> 0, stopAt |-> 0, stopErr |-> NilErr, handler |-> [responds |-> FALSE, ret |-> NilErr],
     ran |-> <<>>, err |-> NilErr]

\* no route is registered and no request is served
NoRouter ==
    /\ ptrSize = 8
    /\ heap = <<>> /\ middlewares = NilSlice /\ groups = <<>> /\ routes = <<>>
    /\ served = NoRequest /\ writes = <<>> /\ errorHandlerCalls = <<>>

-----------------------------------------------------------------------------
(* CORS: middleware/cors.go *)

\* http.Header.Set, Add and Get on a header map: name -> list of values
HeaderSet(h, name, value) == (name :> <<value>>) @@ h

HeaderAdd(h, name, value) ==
    (name :> ((IF name \in DOMAIN h THEN h[name] ELSE <<>>) \o <<value>>)) @@ h

\* strings.Join(list, ", "): the elements with the separator between them, as one text of
\* tokens
RECURSIVE Join(_)
Join(list) ==
    IF list = <<>> THEN <<>>
    ELSE IF Len(list) = 1 THEN <<list[1]>>
    ELSE <<list[1], ", ">> \o Join(Tail(list))

\* strconv.Itoa(n) for n >= 0, as a text of digits
RECURSIVE Itoa(_)
Itoa(n) ==
    IF n < 10 THEN <<CHOOSE c \in Digits : DigitVal(c) = n>>
    ELSE Itoa(n \div 10) \o <<CHOOSE c \in Digits : DigitVal(c) = n % 10>>

StatusNoContent == 204

\* the loop over config.AllowOrigins: the first entry that is "*" or the origin, "" if there
\* is none
RECURSIVE allowOrigin(_, _)
allowOrigin(origins, o) ==
    IF origins = <<>> THEN ""
    ELSE IF origins[1] = "*" \/ origins[1] = o THEN origins[1]
    ELSE allowOrigin(Tail(origins), o)

\* the headers set before the method is looked at: cors.go 68-79
originHeaders(cfg, o) ==
    With(IF allowOrigin(cfg.AllowOrigins, o) = "*"
         THEN HeaderSet(<<>>, "Access-Control-Allow-Origin", "*")
         ELSE IF allowOrigin(cfg.AllowOrigins, o) # ""
         THEN HeaderAdd(HeaderSet(<<>>, "Access-Control-Allow-Origin", o), "Vary", "Origin")
         ELSE <<>>,
         LAMBDA h : IF cfg.AllowCredentials
                    THEN HeaderSet(h, "Access-Control-Allow-Credentials", "true") ELSE h)

\* the headers of the answer to a preflight request: cors.go 83-102
preflightHeaders(cfg, reqHeaders, h0) ==
    With(IF Len(cfg.AllowMethods) > 0
         THEN HeaderSet(h0, "Access-Control-Allow-Methods", Join(cfg.AllowMethods)) ELSE h0,
         LAMBDA h1 :
    With(IF Len(cfg.AllowHeaders) > 0
         THEN HeaderSet(h1, "Access-Control-Allow-Headers", Join(cfg.AllowHeaders))
         ELSE IF reqHeaders # "" THEN HeaderSet(h1, "Access-Control-Allow-Headers", <<reqHeaders>>)
         ELSE h1,
         LAMBDA h2 :
         IF cfg.MaxAge > 0 THEN HeaderSet(h2, "Access-Control-Max-Age", Itoa(cfg.MaxAge)) ELSE h2))

\* the middleware handing a preflight request on to the next handler after it set the headers
CORSWithConfigPassingPreflight(cfg, m, o, reqHeaders) ==
    IF /\ allowOrigin(cfg.AllowOrigins, o) = ""
       /\ Len(cfg.AllowOrigins) > 0
       /\ cfg.AllowOrigins[1] # "*"
    THEN [header |-> <<>>, status |-> 0, next |-> 1]
    ELSE IF m = "OPTIONS"
    THEN [header |-> preflightHeaders(cfg, reqHeaders, originHeaders(cfg, o)),
          status |-> 0, next |-> 1]
    ELSE [header |-> IF Len(cfg.ExposeHeaders) > 0
                     THEN HeaderSet(originHeaders(cfg, o), "Access-Control-Expose-Headers",
                                    Join(cfg.ExposeHeaders))
                     ELSE originHeaders(cfg, o),
          status |-> 0, next |-> 1]

\* the handler CORSWithConfig(config)(next) serving a request: the headers it sets, the status
\* it writes (0 when it writes none) and how often it serves next: [header, status, next]
CORSWithConfig(cfg, m, o, reqHeaders) ==
    IF /\ allowOrigin(cfg.AllowOrigins, o) = ""
       /\ Len(cfg.AllowOrigins) > 0
       /\ cfg.AllowOrigins[1] # "*"
    THEN [header |-> <<>>, status |-> 0, next |-> 1]
    ELSE IF m = "OPTIONS"
    THEN [header |-> preflightHeaders(cfg, reqHeaders, originHeaders(cfg, o)),
          status |-> StatusNoContent, next |-> 0]
    ELSE [header |-> IF Len(cfg.ExposeHeaders) > 0
                     THEN HeaderSet(originHeaders(cfg, o), "Access-Control-Expose-Headers",
                                    Join(cfg.ExposeHeaders))
                     ELSE originHeaders(cfg, o),
          status |-> 0, next |-> 1]

\* no CORS middleware is set up
NoCORS ==
    /\ corsConfig = <<>> /\ method = "" /\ origin = "" /\ requestHeaders = ""
    /\ header = <<>> /\ nextCalls = 0

-----------------------------------------------------------------------------
(* The state machine: a request has arrived (Init, InitValues) and one     *)
(* Binder method is called on it; a Binder lives for one request.          *)

Init ==
    /\ phase = "ready"
    /\ op = ""
    /\ strictJSON \in BOOLEAN
    /\ contentType \in ContentTypes
    /\ body \in BodyStreams
    /\ bodyReads = 0
    /\ bodyCloses = 0
    /\ query = <<>>
    /\ form \in BodyForms
    /\ dstShape = "ptrStruct"
    /\ dstType \in {User, StringDst, BytesDst}
    /\ dst0 \in Destinations(dstType)
    /\ dst = dst0
    /\ err = NilErr
    /\ maxMem = 0
    /\ panicked = FALSE
    /\ fileHeader = <<>>
    /\ config = NoConfig
    /\ bodyLimit = New(NoConfig).bodyLimit
    /\ status = 0
    /\ NoClientIP /\ NoRouter /\ NoCORS

ValueTypes == {Person, Limits, Lists, Refs, Upload, Tagged, Flags}

InitValues ==
    /\ phase = "ready"
    /\ op = ""
    /\ strictJSON = FALSE
    /\ contentType = <<>>
    /\ body = [present |-> TRUE, data |-> <<>>, readErr |-> FALSE]
    /\ bodyReads = 0
    /\ bodyCloses = 0
    /\ dstType \in ValueTypes
    /\ query \in ValueMaps(KeysOf(dstType), MaxVals)
    /\ \/ /\ dstShape = "ptrStruct"
          /\ form \in {[err |-> FALSE, Value |-> query, File |-> f] : f \in FileMaps(dstType)}
          /\ dst0 \in Destinations(dstType)
       \/ /\ dstShape = "ptrStruct"
          /\ form \in {[err |-> FALSE, Value |-> query, File |-> f] : f \in PresetFileMaps(dstType)}
          /\ dst0 = ZeroStruct(dstType)
       \/ /\ dstShape \in OtherShapes
          /\ form \in {[err |-> FALSE, Value |-> query, File |-> f] : f \in SmallFileMaps(dstType)}
          /\ dst0 = ZeroStruct(dstType)
    /\ dst = dst0
    /\ err = NilErr
    /\ maxMem = 0
    /\ panicked = FALSE
    /\ fileHeader = <<>>
    /\ config = NoConfig
    /\ bodyLimit = New(NoConfig).bodyLimit
    /\ status = 0
    /\ NoClientIP /\ NoRouter /\ NoCORS

\* the call of a Binder method with outcome o
Return(name, o) ==
    /\ phase = "ready"
    /\ phase' = "done"
    /\ op' = name
    /\ err' = o.err
    /\ dst' = o.dst
    /\ bodyReads' = bodyReads + o.reads
    /\ bodyCloses' = bodyCloses + o.closes
    /\ maxMem' = o.mem
    /\ panicked' = o.panic
    /\ fileHeader' = o.header
    /\ UNCHANGED <<strictJSON, contentType, body, query, form, dstShape, dstType, dst0,
                   config, bodyLimit, status, ipVars, routerVars, corsVars>>

IsStruct(T) == T.fields # <<>>

CallJSON == IsStruct(dstType) /\ Return("JSON", JSON(body, dstShape, dstType.fields, dst))

CallXML == IsStruct(dstType) /\ Return("XML", XML(body, dstShape, dstType.fields, dst))

CallText == dstType = StringDst /\ Return("Text", Text(body, dst))

CallBytes == dstType = BytesDst /\ Return("Bytes", Bytes(body, dst))

CallQuery == IsStruct(dstType) /\ Return("Query", Query(query, dstShape, dstType.fields, dst))

CallForm == IsStruct(dstType) /\ Return("Form", Form(body, form, dstShape, dstType.fields, dst))

CallMultipartForm ==
    /\ IsStruct(dstType)
    /\ \E maxMemory \in {0, testMaxMemory} :
          Return("MultipartForm", MultipartForm(body, form, dstShape, dstType.fields, dst, maxMemory))

CallAuto ==
    IsStruct(dstType) /\ Return("Auto", Auto(contentType, body, form, dstShape, dstType.fields, dst))

Next == CallJSON \/ CallXML \/ CallText \/ CallBytes \/ CallAuto

Spec == Init /\ [][Next]_vars

\* the names Binder.File is asked for
FileNames == {"file", "files", "other", "missing"}

CallFile == \E name \in FileNames : Return("File", File(body, form, name, dst))

NextValues == CallQuery \/ CallForm \/ CallMultipartForm \/ CallFile

SpecValues == InitValues /\ [][NextValues]_vars

\* the body limits a program configures: none that makes sense, no limit, limits around the
\* sizes of the bodies of the model
BodyLimits == {-1, 0, 10, 23, 24, 25, 37, 38, 10 * MB}

\* the configurations a program hands to New
Configs ==
    {NoConfig}
        \cup {[given |-> TRUE, BodyLimitSet |-> FALSE, BodyLimit |-> 0, StrictJSON |-> s] :
                 s \in BOOLEAN}
        \cup {[given |-> TRUE, BodyLimitSet |-> TRUE, BodyLimit |-> n, StrictJSON |-> FALSE] :
                 n \in BodyLimits}

\* the bodies of the requests to the App: those of the model that are JSON or nothing
AppBodies == {d \in Bodies : d = <<>> \/ d[1] = "{"}

\* a program is about to create its App; the request it will be sent is fixed here
InitApp ==
    /\ phase = "new"
    /\ op = ""
    /\ strictJSON = FALSE
    /\ contentType = ctJSON
    /\ body \in {[present |-> TRUE, data |-> d, readErr |-> FALSE] : d \in AppBodies}
    /\ bodyReads = 0
    /\ bodyCloses = 0
    /\ query = <<>>
    /\ form = [err |-> TRUE, Value |-> <<>>, File |-> <<>>]
    /\ dstShape = "ptrStruct"
    /\ dstType = User
    /\ dst0 = ZeroStruct(User)
    /\ dst = dst0
    /\ err = NilErr
    /\ maxMem = 0
    /\ panicked = FALSE
    /\ fileHeader = <<>>
    /\ config \in Configs
    /\ bodyLimit = 0
    /\ status = 0
    /\ NoClientIP /\ NoRouter /\ NoCORS

\* app := New(config)
CallNew ==
    /\ phase = "new"
    /\ phase' = "ready"
    /\ op' = "New"
    /\ bodyLimit' = New(config).bodyLimit
    /\ strictJSON' = New(config).strictJSON
    /\ UNCHANGED <<contentType, body, bodyReads, bodyCloses, query, form, dstShape, dstType, dst0,
                   dst, err, maxMem, panicked, fileHeader, config, status,
                   ipVars, routerVars, corsVars>>

\* app.ServeHTTP on the request, routed to the handler wrapped by wrapHandler
ServeHTTP ==
    /\ phase = "ready"
    /\ op = "New"
    /\ phase' = "done"
    /\ op' = "ServeHTTP"
    /\ With(wrapHandler(body, bodyLimit, dstType.fields, dst), LAMBDA o :
          /\ err' = o.err
          /\ dst' = o.dst
          /\ bodyReads' = bodyReads + o.reads
          /\ bodyCloses' = bodyCloses + o.closes
          /\ status' = o.status)
    /\ UNCHANGED <<strictJSON, contentType, body, query, form, dstShape, dstType, dst0, maxMem,
                   panicked, fileHeader, config, bodyLimit, ipVars, routerVars, corsVars>>

NextApp == CallNew \/ ServeHTTP

SpecApp == InitApp /\ [][NextApp]_vars

\* every Binder method on every request of the model
InitBinder == Init \/ InitValues

NextBinder == Next \/ NextValues

SpecBinder == InitBinder /\ [][NextBinder]_vars

\* the state of the Binder and of the App while neither is looked at
binderVars == <<strictJSON, contentType, body, bodyReads, bodyCloses, query, form, dstShape,
                dstType, dst0, dst, err, maxMem, panicked, fileHeader, config, bodyLimit, status>>

NoBinder ==
    /\ strictJSON = FALSE /\ contentType = <<>>
    /\ body = [present |-> FALSE, data |-> <<>>, readErr |-> FALSE]
    /\ bodyReads = 0 /\ bodyCloses = 0 /\ query = <<>>
    /\ form = [err |-> FALSE, Value |-> <<>>, File |-> <<>>]
    /\ dstShape = "nil" /\ dstType = StringDst /\ dst0 = <<>> /\ dst = <<>> /\ err = NilErr
    /\ maxMem = 0 /\ panicked = FALSE /\ fileHeader = <<>>
    /\ config = NoConfig /\ bodyLimit = New(NoConfig).bodyLimit /\ status = 0

\* the longest X-Forwarded-For header of the model
MaxHeaderLen == 3

\* all texts of at most n characters over an alphabet
Texts(alphabet, n) == UNION {[1..k -> alphabet] : k \in 0..n}

\* the remote addresses of the model: what the net/http server sets for an IPv4 and an IPv6
\* peer, and the bare host a test or a proxy library may store
RemoteAddrs == { <<"1", ":", "8">>, <<"[", ":", ":", "1", "]", ":", "8">>, <<"1">> }

\* a request whose client address is asked for
InitClientIP ==
    /\ phase = "ready"
    /\ op = ""
    /\ NoBinder /\ NoRouter /\ NoCORS
    /\ remoteAddr \in RemoteAddrs
    /\ xRealIP \in {<<>>, <<"9">>}
    /\ xForwardedFor \in Texts({"1", ",", " "}, MaxHeaderLen)
    /\ trustProxy \in BOOLEAN
    /\ clientIP = <<>>

\* c.ClientIP(trustProxy)
CallClientIP ==
    /\ phase = "ready"
    /\ op = ""
    /\ phase' = "done"
    /\ op' = "ClientIP"
    /\ clientIP' = ClientIP(remoteAddr, xRealIP, xForwardedFor, trustProxy)
    /\ UNCHANGED <<remoteAddr, xRealIP, xForwardedFor, trustProxy, binderVars, routerVars, corsVars>>

NextClientIP == CallClientIP

SpecClientIP == InitClientIP /\ [][NextClientIP]_vars

\* the prefixes and paths the program makes its Groups and RouteBuilders for, one for each
Prefixes == <<"/api", "/users", "/:id">>

\* the paths the program registers its routes for, one for each
Patterns == <<"/">>

\* the longest middleware list of a Group or a RouteBuilder
MaxChain == 3

\* the largest number of middlewares a program hands to one call
MaxGiven == 1

\* the middlewares of a program, in the order the program first hands them to a call
Names == <<"m1", "m2", "m3">>

\* how many middlewares the program has handed over: each was stored in a backing array
Handed(h) ==
    With({k \in 1..Len(Names) : \E a \in 1..Len(h) : \E i \in 1..Len(h[a]) : h[a][i] = Names[k]},
         LAMBDA used : IF used = {} THEN 0 ELSE CHOOSE k \in used : \A l \in used : l <= k)

\* the middlewares a program hands to one call: none, or some it did not use before
Given ==
    {[i \in 1..n |-> Names[Handed(heap) + i]] :
        n \in {m \in 0..MaxGiven : Handed(heap) + m <= Len(Names)}}

StatusUnauthorized == 401

StatusNotFound == 404

\* what a handler does: it sends a response or not, and returns nil, an *HTTPError or
\* another error
Handlers ==
    [responds : BOOLEAN,
     ret : {NilErr, NewHTTPError(StatusNotFound, "not found", <<>>, ""), PlainError}]

\* the errors a middleware returns without calling next
MiddlewareErrors == {NewHTTPError(StatusUnauthorized, "unauthorized", <<>>, ""), PlainError}

\* a new App, no middleware, no route
InitRouter ==
    /\ phase = "ready"
    /\ op = ""
    /\ NoBinder /\ NoClientIP /\ NoCORS
    /\ ptrSize \in {4, 8}
    /\ heap = <<>> /\ middlewares = NilSlice /\ groups = <<>> /\ routes = <<>>
    /\ served = NoRequest /\ writes = <<>> /\ errorHandlerCalls = <<>>

\* a step of the program that sets the routes up, before it serves
Setup ==
    /\ phase = "ready"
    /\ UNCHANGED <<phase, op, ptrSize, served, writes, errorHandlerCalls, binderVars, ipVars, corsVars>>

\* a new Group or RouteBuilder
NewGroup(kind, r, given) ==
    /\ heap' = r.heap
    /\ groups' = Append(groups, [kind |-> kind, middlewares |-> r.slice, given |-> given])
    /\ UNCHANGED <<middlewares, routes>>

\* a new route on the mux, its chain built from the slice mws
NewRoute(r, given) ==
    /\ heap' = r.heap
    /\ routes' = Append(routes, [chain |-> chainMiddlewares(<<"handler">>, Read(r.heap, r.slice)),
                                  mws |-> r.slice, given |-> given])
    /\ UNCHANGED <<middlewares, groups>>

\* a.Use(m) with an Owl-style middleware
AppUse ==
    /\ Setup
    /\ middlewares.len < MaxChain
    /\ \E ms \in {m \in Given : Len(m) = 1} :
          With(append(heap, middlewares, ms, ptrSize), LAMBDA r :
              heap' = r.heap /\ middlewares' = r.slice)
    /\ UNCHANGED <<groups, routes>>

\* a.Group(prefix, ms...)
AppGroup ==
    /\ Setup
    /\ Len(groups) < Len(Prefixes)
    /\ \E ms \in Given :
          /\ middlewares.len + Len(ms) <= MaxChain
          /\ NewGroup("Group", copyAppend(heap, middlewares, ms, ptrSize), Read(heap, middlewares) \o ms)

GroupsOf(kind) == {g \in 1..Len(groups) : groups[g].kind = kind}

\* g.Use(ms...)
GroupUse ==
    /\ Setup
    /\ \E g \in GroupsOf("Group"), ms \in Given :
          /\ groups[g].middlewares.len + Len(ms) <= MaxChain
          /\ With(append(heap, groups[g].middlewares, ms, ptrSize), LAMBDA r :
                /\ heap' = r.heap
                /\ groups' = [groups EXCEPT ![g].middlewares = r.slice,
                                            ![g].given = groups[g].given \o ms])
    /\ UNCHANGED <<middlewares, routes>>

\* g.Group(prefix, ms...)
GroupGroup ==
    /\ Setup
    /\ Len(groups) < Len(Prefixes)
    /\ \E g \in GroupsOf("Group"), ms \in Given :
          /\ groups[g].middlewares.len + Len(ms) <= MaxChain
          /\ NewGroup("Group", copyAppend(heap, groups[g].middlewares, ms, ptrSize), groups[g].given \o ms)

\* g.Route(path, ms...)
GroupRoute ==
    /\ Setup
    /\ Len(groups) < Len(Prefixes)
    /\ \E g \in GroupsOf("Group"), ms \in Given :
          /\ groups[g].middlewares.len + Len(ms) <= MaxChain
          /\ NewGroup("RouteBuilder", copyAppend(heap, groups[g].middlewares, ms, ptrSize),
                      groups[g].given \o ms)

\* g.GET(path, h, ms...), and POST, PUT, PATCH and DELETE, which differ in the mux method only
GroupGET ==
    /\ Setup
    /\ Len(routes) < Len(Patterns)
    /\ \E g \in GroupsOf("Group"), ms \in Given :
          /\ groups[g].middlewares.len + Len(ms) <= MaxChain
          /\ NewRoute(append(heap, groups[g].middlewares, ms, ptrSize), groups[g].given \o ms)

\* rb.With(ms...)
RouteBuilderWith ==
    /\ Setup
    /\ \E rb \in GroupsOf("RouteBuilder"), ms \in Given :
          /\ groups[rb].middlewares.len + Len(ms) <= MaxChain
          /\ With(append(heap, groups[rb].middlewares, ms, ptrSize), LAMBDA r :
                /\ heap' = r.heap
                /\ groups' = [groups EXCEPT ![rb].middlewares = r.slice,
                                            ![rb].given = groups[rb].given \o ms])
    /\ UNCHANGED <<middlewares, routes>>

\* rb.GET(h, ms...), and POST, PUT, PATCH and DELETE
RouteBuilderGET ==
    /\ Setup
    /\ Len(routes) < Len(Patterns)
    /\ \E rb \in GroupsOf("RouteBuilder"), ms \in Given :
          /\ groups[rb].middlewares.len + Len(ms) <= MaxChain
          /\ NewRoute(copyAppend(heap, groups[rb].middlewares, ms, ptrSize), groups[rb].given \o ms)

\* rb.Group(subPath, ms...)
RouteBuilderGroup ==
    /\ Setup
    /\ Len(groups) < Len(Prefixes)
    /\ \E rb \in GroupsOf("RouteBuilder"), ms \in Given :
          /\ groups[rb].middlewares.len + Len(ms) <= MaxChain
          /\ NewGroup("RouteBuilder", append(heap, groups[rb].middlewares, ms, ptrSize),
                      groups[rb].given \o ms)

\* the chain the mux serves a route with: the one compiled at registration
Compiled(h, route) == route.chain

\* the mux serves a request on a registered route
Serve ==
    /\ phase = "ready"
    /\ phase' = "done"
    /\ op' = "Serve"
    /\ \E r \in 1..Len(routes) :
       \E stopAt \in 0..(Len(Compiled(heap, routes[r])) - 1) :
       \E stopErr \in IF stopAt = 0 THEN {NilErr} ELSE MiddlewareErrors :
       \E hd \in IF stopAt = 0 THEN Handlers ELSE {NoRequest.handler} :
          With(serveChain(Compiled(heap, routes[r]), stopAt, stopErr, hd), LAMBDA o :
              /\ served' = [route |-> r, stopAt |-> stopAt, stopErr |-> stopErr, handler |-> hd,
                            ran |-> o.ran, err |-> o.err]
              /\ writes' = o.writes
              /\ errorHandlerCalls' = o.errorHandlerCalls)
    /\ UNCHANGED <<ptrSize, heap, middlewares, groups, routes, binderVars, ipVars, corsVars>>

NextRouter ==
    \/ AppUse \/ AppGroup
    \/ GroupUse \/ GroupGroup \/ GroupRoute \/ GroupGET
    \/ RouteBuilderWith \/ RouteBuilderGET \/ RouteBuilderGroup
    \/ Serve

SpecRouter == InitRouter /\ [][NextRouter]_vars

\* the longest AllowOrigins list of the model
MaxOrigins == 2

\* every list of at most n elements of a set
ListsUpTo(S, n) == UNION {[1..k -> S] : k \in 0..n}

\* the CORS configs of the model: origin lists with and without the wildcard and with an
\* empty entry, as a config filled from an unset setting has it; the other fields set or not
CORSConfigs ==
    [AllowOrigins : ListsUpTo({"*", "https://example.com", "https://other.example", ""}, MaxOrigins),
     AllowMethods : {<<>>, <<"GET", "POST">>},
     AllowHeaders : {<<>>, <<"Content-Type">>},
     ExposeHeaders : {<<>>, <<"X-Request-Id">>},
     AllowCredentials : BOOLEAN,
     MaxAge : {0, 3600}]

\* a request reaches the handler the CORS middleware made
InitCORS ==
    /\ phase = "ready"
    /\ op = ""
    /\ NoBinder /\ NoClientIP /\ NoRouter
    /\ corsConfig \in CORSConfigs
    /\ method \in {"GET", "OPTIONS"}
    /\ origin \in {"", "https://example.com", "https://evil.com"}
    /\ requestHeaders \in {"", "X-Custom"}
    /\ header = <<>>
    /\ nextCalls = 0

\* the handler CORSWithConfig(config)(next) serves the request
ServeCORS ==
    /\ phase = "ready"
    /\ op = ""
    /\ phase' = "done"
    /\ op' = "CORS"
    /\ With(CORSWithConfig(corsConfig, method, origin, requestHeaders), LAMBDA o :
          header' = o.header /\ status' = o.status /\ nextCalls' = nextCalls + o.next)
    /\ UNCHANGED <<strictJSON, contentType, body, bodyReads, bodyCloses, query, form, dstShape,
                   dstType, dst0, dst, err, maxMem, panicked, fileHeader, config, bodyLimit,
                   corsConfig, method, origin, requestHeaders, ipVars, routerVars>>

NextCORS == ServeCORS

SpecCORS == InitCORS /\ [][NextCORS]_vars

-----------------------------------------------------------------------------
(* The error kinds of the specification, as the code words them *)

IsEmptyBody(e) == e.Code = StatusBadRequest /\ e.Message = "request body is empty"

IsInvalidFormat(e) ==
    e.Code = StatusBadRequest /\ e.Message \in {"invalid JSON: ", "invalid XML: "} /\ e.Cause # ""

IsFieldTooLong(e, name) ==
    e.Code = StatusBadRequest /\ e.Message = "field value too long: " /\ e.Arg = <<name>>

IsInvalidFieldValue(e, name) ==
    e.Code = StatusBadRequest /\ e.Message = "invalid value for field " /\ e.Arg = <<name>>

IsOverflow(e, name) ==
    /\ IsInvalidFieldValue(e, name)
    /\ e.Cause \in {"http 400: integer overflow", "http 400: unsigned integer overflow"}

IsFileTooLarge(e, filename) ==
    e.Code = StatusBadRequest /\ e.Message = "file too large: " /\ e.Arg = filename

IsUnsupportedMediaType(e, ct) ==
    e.Code = StatusUnsupportedMediaType /\ e.Message = "unsupported content type: " /\ e.Arg = ct

-----------------------------------------------------------------------------
(* JSON texts, described by position rather than by scanning *)

\* data is one flat JSON object: { key : value , key : value ... }
IsObjectText(data) ==
    /\ Len(data) >= 2
    /\ data[1] = "{"
    /\ data[Len(data)] = "}"
    /\ (Len(data) - 2 = 0 \/ (Len(data) - 2) % 4 = 3)
    /\ \A p \in 2..(Len(data) - 1) :
          CASE (p - 1) % 4 = 1 -> jsonKind(data[p]) = "string"
            [] (p - 1) % 4 = 2 -> data[p] = ":"
            [] (p - 1) % 4 = 3 -> jsonKind(data[p]) \in {"string", "number", "null"}
            [] (p - 1) % 4 = 0 -> data[p] = ","

\* the number of members of an object text
MemberCount(data) == (Len(data) + 1) \div 4

\* the key and the value token of member m of an object text
MemberKey(data, m) == jsonKey(data[4 * m - 2])

MemberValue(data, m) == data[4 * m]

\* the JSON name of field i of T
JSONName(T, i) == IF T[i].json = <<>> THEN ToLower(T[i].Name) ELSE T[i].json[1]

\* token tok has the JSON type of a field of type t
FitsType(t, tok) ==
    \/ jsonKind(tok) = "null"
    \/ t = "string" /\ jsonKind(tok) = "string"
    \/ t = "int" /\ tok \in {"25", "300"}

\* every member of the object that names a field of T carries a value of the field's type
MatchesShape(data, T) ==
    \A m \in 1..MemberCount(data) : \A i \in 1..Len(T) :
        MemberKey(data, m) = JSONName(T, i) => FitsType(T[i].Type, MemberValue(data, m))

\* the value the tokens of the model spell
TokenValue(tok) ==
    CASE tok = "\"John\"" -> <<"J", "o", "h", "n">>
      [] tok = "\"Al\"" -> <<"A", "l">>
      [] tok = "25" -> 25
      [] tok = "300" -> 300

\* the destination holding the values of the object's members, the other fields as in d0
Decoded(data, T, d0) ==
    [i \in 1..Len(T) |->
        LET ms == {m \in 1..MemberCount(data) :
                     MemberKey(data, m) = JSONName(T, i) /\ jsonKind(MemberValue(data, m)) # "null"}
        IN  IF ms = {} THEN d0[i]
            ELSE TokenValue(MemberValue(data, CHOOSE m \in ms : \A n \in ms : n <= m))]

\* the body starts with a complete JSON object
ObjectPrefixes(data) == {n \in 1..Len(data) : IsObjectText(SubSeq(data, 1, n))}

\* C1 as stated: a body that is valid JSON matching the destination binds without error to the
\* decoded values, and every body that is not a JSON text fails with InvalidFormat (400)
C1_EveryMalformedBodyFails ==
    (op = "JSON" /\ body.present) =>
        /\ (IsObjectText(body.data) /\ MatchesShape(body.data, dstType.fields)) =>
               (IsNil(err) /\ dst = Decoded(body.data, dstType.fields, dst0))
        /\ ~IsObjectText(body.data) => IsInvalidFormat(err)

\* C1, amended: Bind-as-JSON decodes the first JSON value of the body.  A body that starts with
\* an object matching the destination binds without error to the object's values, whatever
\* follows the object; a body that does not start with a complete JSON value fails with
\* InvalidFormat (400) wrapping the parse error
C1_JSONBindsFirstValue ==
    (op = "JSON" /\ body.present) =>
        /\ \A n \in ObjectPrefixes(body.data) :
              MatchesShape(SubSeq(body.data, 1, n), dstType.fields) =>
                 (IsNil(err) /\ dst = Decoded(SubSeq(body.data, 1, n), dstType.fields, dst0))
        /\ ObjectPrefixes(body.data) = {} =>
              (IsInvalidFormat(err) /\ err.Message = "invalid JSON: " /\ dst = dst0)

\* a body of an object and trailing tokens was bound to the object's values
C1_Witness ==
    /\ op = "JSON"
    /\ body.present
    /\ Len(body.data) = 14
    /\ ObjectPrefixes(body.data) = {9}
    /\ IsNil(err)
    /\ dst0 = FilledStruct(User)
    /\ dst = <<(<<"J", "o", "h", "n">>), 25>>

\* C2: Bind-as-JSON, -XML, -Text and -Bytes close a body that is present exactly once and read
\* it at most once on every exit path; failing with EmptyBody they neither read nor close
C2_BodyClosedOnce ==
    (op \in {"JSON", "XML", "Text", "Bytes"}) =>
        /\ body.present => (bodyCloses = 1 /\ bodyReads <= 1)
        /\ IsEmptyBody(err) => (bodyReads = 0 /\ bodyCloses = 0)

\* a read error was returned and the body was closed
C2_Witness ==
    /\ op = "Text"
    /\ body.present
    /\ body.readErr
    /\ err.Message = "failed to read body: "
    /\ bodyCloses = 1

\* C3: on a request without a body Bind-as-JSON, -XML, -Text and -Bytes fail with
\* EmptyBody (400) and leave the destination as it was
C3_NilBodyIsEmptyBody ==
    (op \in {"JSON", "XML", "Text", "Bytes"} /\ ~body.present) =>
        (IsEmptyBody(err) /\ dst = dst0)

\* Bind-as-Bytes failed on a nil body and the filled destination kept its content
C3_Witness ==
    /\ op = "Bytes"
    /\ ~body.present
    /\ IsEmptyBody(err)
    /\ dst0 = <<"old">>
    /\ dst = dst0

\* the object has a member that names no field of T
HasUnknownField(data, T) ==
    \E m \in 1..MemberCount(data) : \A i \in 1..Len(T) : MemberKey(data, m) # JSONName(T, i)

\* C4: with strict mode on, Bind-as-JSON fails with InvalidFormat (400) on a body with an
\* unknown field or with bytes after the top-level value and binds a body of known fields;
\* with strict mode off a body with unknown fields binds without error
C4_StrictModeRejects ==
    (op = "JSON" /\ body.present /\ ~body.readErr) =>
        \A n \in ObjectPrefixes(body.data) :
            LET obj == SubSeq(body.data, 1, n)
            IN  MatchesShape(obj, dstType.fields) =>
                  /\ (strictJSON /\ (HasUnknownField(obj, dstType.fields) \/ n < Len(body.data)))
                        => IsInvalidFormat(err)
                  /\ (strictJSON /\ ~HasUnknownField(obj, dstType.fields) /\ n = Len(body.data))
                        => IsNil(err)
                  /\ (~strictJSON /\ n = Len(body.data)) => IsNil(err)

\* the media type a content type declares: the text before the first ";"
MediaType(ct) ==
    LET semis == {i \in 1..Len(ct) : ct[i] = ";"}
    IN  IF semis = {} THEN ct
        ELSE SubSeq(ct, 1, (CHOOSE i \in semis : \A j \in semis : i <= j) - 1)

\* what Return leaves in the variables for outcome o of a call on the request of the state
Leaves(o) ==
    /\ err = o.err
    /\ dst = o.dst
    /\ bodyReads = o.reads
    /\ bodyCloses = o.closes

\* C10 as stated: Bind-auto on a declared media type other than application/json, form-urlencoded,
\* multipart/form-data, application/xml and text/xml fails with UnsupportedMediaType (415)
\* naming the received type, without reading the body or touching the destination
C10_EveryOtherTypeUnsupported ==
    (op = "Auto" /\ MediaType(contentType) \notin {ctJSON, ctForm, ctMultipart, ctXML, ctTextXML}) =>
        /\ IsUnsupportedMediaType(err, contentType)
        /\ bodyReads = 0
        /\ bodyCloses = 0
        /\ dst = dst0

\* C10, amended: Bind-auto dispatches on the prefix of the declared content type.  A content type
\* starting with application/json has the result, error and body effects of Bind-as-JSON on the
\* same request, one starting with application/x-www-form-urlencoded those of Bind-as-Form, with
\* multipart/form-data those of Bind-as-MultipartForm with 32 MiB, with application/xml or
\* text/xml those of Bind-as-XML; a content type starting with none of them fails with
\* UnsupportedMediaType (415) naming the received type, the body unread and the destination
\* untouched
C10_AutoDispatchesOnPrefix ==
    (op = "Auto") =>
        LET T == dstType.fields
        IN  /\ HasPrefix(contentType, ctJSON) => Leaves(JSON(body, dstShape, T, dst0))
            /\ HasPrefix(contentType, ctForm) => Leaves(Form(body, form, dstShape, T, dst0))
            /\ HasPrefix(contentType, ctMultipart) =>
                  /\ Leaves(MultipartForm(body, form, dstShape, T, dst0, defaultMaxMemory))
                  /\ maxMem = defaultMaxMemory
            /\ (HasPrefix(contentType, ctXML) \/ HasPrefix(contentType, ctTextXML)) =>
                  Leaves(XML(body, dstShape, T, dst0))
            /\ (\A p \in {ctJSON, ctForm, ctMultipart, ctXML, ctTextXML} : ~HasPrefix(contentType, p)) =>
                  /\ IsUnsupportedMediaType(err, contentType)
                  /\ bodyReads = 0
                  /\ bodyCloses = 0
                  /\ dst = dst0

\* Bind-auto bound a body declared as text/xml as Bind-as-XML does
C10_Witness ==
    /\ op = "Auto"
    /\ contentType = ctTextXML
    /\ body.present
    /\ IsNil(err)
    /\ dst # dst0
    /\ dst[1] = <<"J", "o", "h", "n">>
    /\ bodyCloses = 1

-----------------------------------------------------------------------------
(* The binding of a value mapping, described field by field *)

\* the calls that bind a value mapping
BindingOp == op \in {"Query", "Form", "MultipartForm"}

\* the request is one the net/http parsers produce (no nil file header) and the caller
\* passed a pointer to a struct
Regular ==
    /\ dstShape = "ptrStruct"
    /\ \A key \in DOMAIN form.File : FirstNil(form.File[key]) = 0

\* the value mapping the call binds
Values == IF op = "Query" THEN query ELSE form.Value

\* the key field i is bound from and the values supplied under it
KeyOf(i) == tagName(dstType.fields[i], <<"form", "query", "json">>)

Supplied(i) == Lookup(Values, KeyOf(i))

\* the type behind a pointer
BaseType(t) == IF Kind(t) = "ptr" THEN Elem(t) ELSE t

\* the type of the values field i holds: the element type of an array or a sequence
ValueType(i) ==
    LET t == BaseType(dstType.fields[i].Type)
    IN  IF Kind(t) \in {"array", "slice"} THEN Elem(t) ELSE t

\* the supplied values the binding of field i uses: all of them for a sequence, as many as the
\* array is long for an array, the first one, unless it is empty, for a scalar
Used(i) ==
    LET t == BaseType(dstType.fields[i].Type)
        v == Supplied(i)
    IN  CASE Kind(t) = "slice" -> v
          [] Kind(t) = "array" -> SubSeq(v, 1, Min(ArrayLen(t), Len(v)))
          [] OTHER -> IF v = <<>> \/ v[1] = <<>> THEN <<>> ELSE <<v[1]>>

\* a decimal numeral: an optional sign and one or more digits
Sign(v) == IF v # <<>> /\ v[1] \in {"+", "-"} THEN v[1] ELSE ""

Magnitude(v) == IF Sign(v) = "" THEN v ELSE SubSeq(v, 2, Len(v))

IsDecimal(v) == Magnitude(v) # <<>> /\ \A i \in 1..Len(Magnitude(v)) : Magnitude(v)[i] \in Digits

\* a <= b for two digit strings, compared at equal length
PadTo(a, n) == [i \in 1..n |-> IF i <= n - Len(a) THEN "0" ELSE a[i - (n - Len(a))]]

DigitsLessEq(a, b) ==
    LET n == IF Len(a) > Len(b) THEN Len(a) ELSE Len(b)
        x == PadTo(a, n)
        y == PadTo(b, n)
    IN  \/ x = y
        \/ \E i \in 1..n : DigitVal(x[i]) < DigitVal(y[i]) /\ \A j \in 1..(i - 1) : x[j] = y[j]

\* the largest magnitude an integer kind holds, below zero and above
Limit(k, negative) ==
    CASE k = "int8" -> IF negative THEN <<"1", "2", "8">> ELSE <<"1", "2", "7">>
      [] k = "int16" -> IF negative THEN <<"3", "2", "7", "6", "8">> ELSE <<"3", "2", "7", "6", "7">>
      [] k = "int32" -> IF negative THEN <<"2", "1", "4", "7", "4", "8", "3", "6", "4", "8">>
                                    ELSE <<"2", "1", "4", "7", "4", "8", "3", "6", "4", "7">>
      [] k \in {"int", "int64"} -> IF negative THEN CutoffInt64 ELSE MaxInt64
      [] k = "uint8" -> IF negative THEN <<"0">> ELSE <<"2", "5", "5">>
      [] k = "uint16" -> IF negative THEN <<"0">> ELSE <<"6", "5", "5", "3", "5">>
      [] k = "uint32" -> IF negative THEN <<"0">> ELSE <<"4", "2", "9", "4", "9", "6", "7", "2", "9", "5">>
      [] k \in {"uint", "uint64"} -> IF negative THEN <<"0">> ELSE MaxUint64

\* the value of the numeral v lies in the range of integer kind k
InRange(k, v) == IsDecimal(v) /\ DigitsLessEq(Magnitude(v), Limit(k, Sign(v) = "-"))

\* the numeral v fits the 64-bit integer of the signedness of kind k
Fits64(k, v) == InRange(IF k \in IntKinds THEN "int64" ELSE "uint64", v)

\* the value of a numeral
ValueOf(v) == IF Sign(v) = "-" THEN 0 - NumVal(Magnitude(v)) ELSE NumVal(Magnitude(v))

\* the text v converts to a value of type t
Converts(t, v) ==
    CASE t = "string" -> TRUE
      [] t \in IntKinds -> InRange(t, v)
      [] t \in UintKinds -> Sign(v) = "" /\ InRange(t, v)
      [] t = "bool" -> v \in {<<"t">>, <<"f">>, <<"1">>, <<"0">>}
      [] t = "float64" -> v = <<"2", ".", "5">>
      [] OTHER -> FALSE

\* the value of type t the text v converts to
Converted(t, v) ==
    CASE t = "string" -> v
      [] t = "bool" -> v \in {<<"t">>, <<"1">>}
      [] t = "float64" -> [neg |-> FALSE, int |-> 2, frac |-> <<"5">>]
      [] OTHER -> ValueOf(v)

\* used value j of field i is short enough and converts
ValueOK(i, j) == Len(Used(i)[j]) <= maxFieldLength /\ Converts(ValueType(i), Used(i)[j])

FieldOK(i) == \A j \in 1..Len(Used(i)) : ValueOK(i, j)

\* the binding gets to field i, and to used value j of field i: all before it bind
Reached(i) == \A k \in 1..(i - 1) : dstType.fields[k].CanSet => FieldOK(k)

ReachedValue(i, j) ==
    /\ dstType.fields[i].CanSet
    /\ Reached(i)
    /\ j \in 1..Len(Used(i))
    /\ \A l \in 1..(j - 1) : ValueOK(i, l)

\* field i of the destination holds x as its value j
Holds(i, j, x) ==
    LET t == dstType.fields[i].Type
        held == IF Kind(t) = "ptr" THEN dst[i][1] ELSE dst[i]
    IN  CASE Kind(BaseType(t)) = "slice" -> ~held.isNil /\ Len(held.elems) >= j /\ held.elems[j] = x
          [] Kind(BaseType(t)) = "array" -> held[j] = x
          [] OTHER -> held = x

Fields == 1..Len(dstType.fields)

\* C5: after Bind-as-Query or Bind-as-Form into a fresh destination, every settable field whose
\* key is absent from the value mapping has its zero value, whatever its kind, and a call none
\* of whose fields has a value returns no error
C5_AbsentKeyLeavesZero ==
    (op \in {"Query", "Form"} /\ dst0 = ZeroStruct(dstType)) =>
        /\ \A i \in Fields :
              (dstType.fields[i].CanSet /\ Supplied(i) = <<>>) => dst[i] = Zero(dstType.fields[i].Type)
        /\ (\A i \in Fields : Supplied(i) = <<>>) => IsNil(err)

NumeralFor(i) ==
    /\ dstType.fields[i].CanSet
    /\ dstType.fields[i].Type \in IntKinds \cup UintKinds
    /\ Reached(i)
    /\ Used(i) # <<>>
    /\ IsDecimal(Used(i)[1])
    /\ Len(Used(i)[1]) <= maxFieldLength

\* C7 as stated: a decimal string whose value lies inside the range of an integer field sets the
\* field to exactly that value, and one whose value lies outside it fails the call with
\* Overflow (400) and the field is not set (nothing is asked of a signed numeral in range for
\* an unsigned field)
C7_OutOfRangeIsOverflow ==
    (BindingOp /\ Regular) =>
        \A i \in Fields : NumeralFor(i) =>
            LET k == dstType.fields[i].Type
                v == Used(i)[1]
            IN  IF InRange(k, v) /\ (k \in IntKinds \/ Sign(v) = "")
                THEN dst[i] = ValueOf(v)
                ELSE IF InRange(k, v) THEN TRUE
                ELSE IsOverflow(err, dstType.fields[i].Name) /\ dst[i] = dst0[i]

\* C7, amended: numeric assignment never wraps or truncates.  A numeral in the range of the
\* integer field sets the field to exactly its value; a numeral outside the range fails the call
\* with status 400 naming the field and leaves the field as it was.  The failure is the Overflow
\* error when the numeral fits the 64-bit integer of the field's signedness, and the
\* InvalidFieldValue wrapping the parser's range error when it does not; for an unsigned field a
\* numeral with a sign is refused as a syntax error
C7_NeverWrapsOrTruncates ==
    (BindingOp /\ Regular) =>
        \A i \in Fields : NumeralFor(i) =>
            LET k == dstType.fields[i].Type
                v == Used(i)[1]
                name == dstType.fields[i].Name
            IN  CASE k \in UintKinds /\ Sign(v) # "" ->
                        /\ IsInvalidFieldValue(err, name)
                        /\ err.Cause = "strconv.ParseUint: invalid syntax"
                        /\ dst[i] = dst0[i]
                  [] ~(k \in UintKinds /\ Sign(v) # "") /\ InRange(k, v) ->
                        /\ dst[i] = ValueOf(v)
                        /\ ~IsInvalidFieldValue(err, name)
                  [] ~(k \in UintKinds /\ Sign(v) # "") /\ ~InRange(k, v) ->
                        /\ IsInvalidFieldValue(err, name)
                        /\ dst[i] = dst0[i]
                        /\ Fits64(k, v) => IsOverflow(err, name)
                        /\ ~Fits64(k, v) =>
                              err.Cause \in {"strconv.ParseInt: value out of range",
                                             "strconv.ParseUint: value out of range"}

\* "300" for an 8-bit signed field failed with Overflow and the field kept its value
C7_Witness ==
    /\ op = "Query"
    /\ dstType = Person
    /\ dst0 = FilledStruct(Person)
    /\ Used(2) = <<s300>>
    /\ Reached(2)
    /\ IsOverflow(err, "Age")
    /\ dst[2] = 7

\* C8: a sequence field bound from a key with several values holds exactly those values,
\* converted, in the order supplied; a scalar field bound from such a key receives the first one
C8_ValuesInOrder ==
    (BindingOp /\ Regular) =>
        \A i \in Fields :
            (dstType.fields[i].CanSet /\ Reached(i) /\ FieldOK(i) /\ Len(Supplied(i)) >= 1) =>
                LET t == dstType.fields[i].Type
                IN  /\ Kind(t) = "slice" =>
                          dst[i] = [isNil |-> FALSE,
                                    elems |-> [j \in 1..Len(Supplied(i)) |->
                                                  Converted(Elem(t), Supplied(i)[j])]]
                    /\ (Kind(t) \in {"string"} \cup IntKinds \cup UintKinds /\ Supplied(i)[1] # <<>>) =>
                          dst[i] = Converted(t, Supplied(i)[1])

\* three values under one key were bound to a sequence in their order
C8_Witness ==
    /\ op = "Query"
    /\ dstType = Lists
    /\ Supplied(1) = << <<"b">>, <<"a">>, <<"a">> >>
    /\ dst[1] = [isNil |-> FALSE, elems |-> << <<"b">>, <<"a">>, <<"a">> >>]
    /\ IsNil(err)

\* the fields of the destination that take uploaded files, and the files uploaded for field i
FileFields ==
    {i \in Fields : /\ dstType.fields[i].CanSet
                    /\ dstType.fields[i].Type \in {"*multipart.FileHeader", "[]*multipart.FileHeader"}}

Uploaded(i) == Lookup(form.File, tagName(dstType.fields[i], <<"form">>))

\* C9: Bind-as-MultipartForm, once the form is parsed and its values are bound, fails the whole
\* call with FileTooLarge (400) naming an offending file when a file uploaded for a field of the
\* destination has 50 MiB + 1 byte or more, and binds the files when none is larger than 50 MiB
C9_FileTooLarge ==
    (op = "MultipartForm" /\ ~form.err /\ Regular /\ \A i \in Fields : FieldOK(i)) =>
        /\ (\E i \in FileFields : \E k \in 1..Len(Uploaded(i)) : Uploaded(i)[k].Size >= maxFileSize + 1) =>
              \E i \in FileFields : \E k \in 1..Len(Uploaded(i)) :
                  /\ Uploaded(i)[k].Size >= maxFileSize + 1
                  /\ IsFileTooLarge(err, Uploaded(i)[k].Filename)
        /\ (\A i \in FileFields : \A k \in 1..Len(Uploaded(i)) : Uploaded(i)[k].Size <= maxFileSize) =>
              /\ IsNil(err)
              /\ \A i \in FileFields : Uploaded(i) # <<>> =>
                    IF dstType.fields[i].Type = "*multipart.FileHeader"
                    THEN dst[i] = <<Uploaded(i)[1]>>
                    ELSE dst[i] = [isNil |-> FALSE,
                                   elems |-> [k \in 1..Len(Uploaded(i)) |-> <<Uploaded(i)[k]>>]]

\* a file a byte over the limit, uploaded after one of exactly the limit, failed the call
C9_Witness ==
    /\ op = "MultipartForm"
    /\ dstType = Upload
    /\ Len(Uploaded(2)) = 2
    /\ Uploaded(2)[1].Size = maxFileSize
    /\ Uploaded(2)[2].Size = maxFileSize + 1
    /\ Uploaded(3) = <<>>
    /\ IsFileTooLarge(err, Uploaded(2)[2].Filename)

\* the fields of the destination that take no uploaded file
OrdinaryFields == Fields \ FileFields

\* C11: Bind-as-MultipartForm on a parsed form binds the ordinary fields as Bind-as-Form does on
\* the same values and fails as it does when a value is refused; when the values are bound and
\* no file is refused, a single file handle holds the first file uploaded under its key and a
\* sequence of file handles holds all of them in upload order, with the uploads' names and sizes
C11_MultipartBindsValuesAndFiles ==
    (op = "MultipartForm" /\ ~form.err /\ Regular) =>
        With(Form(body, form, dstShape, dstType.fields, dst0), LAMBDA asForm :
            /\ \A i \in OrdinaryFields : dst[i] = asForm.dst[i]
            /\ ~IsNil(asForm.err) => (err = asForm.err /\ dst = asForm.dst)
            /\ (IsNil(asForm.err) /\ IsNil(err)) =>
                  \A i \in FileFields : Uploaded(i) # <<>> =>
                      IF dstType.fields[i].Type = "*multipart.FileHeader"
                      THEN /\ dst[i] # <<>>
                           /\ dst[i][1].Filename = Uploaded(i)[1].Filename
                           /\ dst[i][1].Size = Uploaded(i)[1].Size
                      ELSE /\ ~dst[i].isNil
                           /\ Len(dst[i].elems) = Len(Uploaded(i))
                           /\ \A k \in 1..Len(Uploaded(i)) :
                                 /\ dst[i].elems[k][1].Filename = Uploaded(i)[k].Filename
                                 /\ dst[i].elems[k][1].Size = Uploaded(i)[k].Size
            /\ (IsNil(asForm.err) /\ \A i \in FileFields : \A k \in 1..Len(Uploaded(i)) :
                                        Uploaded(i)[k].Size <= maxFileSize) => IsNil(err))

\* a title and two different files under each key were bound
C11_Witness ==
    /\ op = "MultipartForm"
    /\ dstType = Upload
    /\ dst0 = ZeroStruct(Upload)
    /\ IsNil(err)
    /\ dst[1] = <<"D", "o", "c">>
    /\ Len(Uploaded(2)) = 2
    /\ Uploaded(2)[1] # Uploaded(2)[2]
    /\ dst[2] = <<Uploaded(2)[1]>>
    /\ Len(Uploaded(3)) = 2
    /\ Uploaded(3)[1] # Uploaded(3)[2]
    /\ dst[3].elems = << <<Uploaded(3)[1]>>, <<Uploaded(3)[2]>> >>

\* a file handle that carries no file: nil, or a handle without name and size
EmptyHandle(h) == h = <<>> \/ h = <<[Filename |-> <<>>, Size |-> 0]>>

C13_NoPanicPropagates ==
    BindingOp =>
        /\ ~panicked
        /\ (op = "MultipartForm" /\ dstShape = "ptrStruct" /\ ~form.err
              /\ (\A i \in Fields : FieldOK(i))
              /\ \E i \in FileFields :
                    /\ FirstNil(Uploaded(i)) # 0
                    /\ FirstTooLarge(BeforeNil(Uploaded(i))) = 0
                    /\ \A j \in FileFields : j < i => Uploaded(j) = <<>>) =>
              /\ err.Code = StatusBadRequest
              /\ err.Message = "binding panic: reflection error"

\* the content type starts with none of the types Bind-auto dispatches on
Unsupported(ct) == \A p \in {ctJSON, ctForm, ctMultipart, ctXML, ctTextXML} : ~HasPrefix(ct, p)

\* C14: every error a Binder operation returns carries an HTTP status and a message; the
\* status is 415 exactly when the operation is Bind-auto on a content type it does not
\* support and 400 for every other failure; Bind-auto on such a content type always fails
C14_StatusOfEveryError ==
    phase = "done" =>
        /\ (op = "Auto" /\ Unsupported(contentType)) => err.Code = StatusUnsupportedMediaType
        /\ ~IsNil(err) =>
              /\ err.Message # ""
              /\ err.Code = IF op = "Auto" /\ Unsupported(contentType)
                            THEN StatusUnsupportedMediaType
                            ELSE StatusBadRequest

\* Binder.File failed with 400 on a form without the file asked for
C14_Witness ==
    /\ op = "File"
    /\ ~form.err
    /\ err.Code = StatusBadRequest
    /\ err.Message = "failed to get file: "
    /\ err.Cause = "http: no such file"

C16_NotPointerToStructFails ==
    (BindingOp /\ dstShape # "ptrStruct") =>
        /\ ~panicked
        /\ err.Code = StatusBadRequest
        /\ dst = dst0
        /\ (op = "Query" \/ ~form.err) =>
              err.Message = IF dstShape \in {"struct", "nil"}
                            THEN "dst must be a pointer"
                            ELSE "dst must be a pointer to struct"

\* Bind-as-MultipartForm refused a nil pointer although title and files were supplied
C16_Witness ==
    /\ op = "MultipartForm"
    /\ dstShape = "nilPtr"
    /\ dstType = Upload
    /\ Lookup(form.Value, "title") # <<>>
    /\ Lookup(form.File, "file") # <<>>
    /\ err.Code = StatusBadRequest
    /\ err.Message = "dst must be a pointer to struct"
    /\ dst = dst0

\* the name part of a tag: its text before the first comma
NamePart(raw) ==
    LET commas == {k \in 1..Len(raw) : raw[k] = ","}
    IN  IF raw = <<>> \/ 1 \in commas THEN "" ELSE raw[1]

\* the form, query and json tags of field i, in that order
TagsOf(i) == <<dstType.fields[i].form, dstType.fields[i].query, dstType.fields[i].json>>

\* the tags of field i that qualify: the name part is not empty and not "-"
Qualifying(i) == {k \in 1..3 : NamePart(TagsOf(i)[k]) \notin {"", "-"}}

\* the source key of field i as the specification words it
SourceKey(i) ==
    IF Qualifying(i) = {} THEN ToLower(dstType.fields[i].Name)
    ELSE NamePart(TagsOf(i)[CHOOSE k \in Qualifying(i) : \A l \in Qualifying(i) : k <= l])

\* C17: the value binding of Bind-as-Query, Bind-as-Form and Bind-as-MultipartForm takes the
\* values of a field from under the name part of the first of its form, query and json tags
\* whose name part is not empty and not "-", and from under the lowercased field name when
\* no tag qualifies: a string field of a fresh destination ends up holding the first value
\* under that key and stays empty when the mapping has none there, whatever it has elsewhere
C17_SourceKey ==
    (BindingOp /\ Regular /\ dst0 = ZeroStruct(dstType) /\ IsNil(err)) =>
        \A i \in Fields : dstType.fields[i].Type = "string" => dst[i] = Get(Values, SourceKey(i))

\* each field took its value from its own key although the mapping offered a value under
\* the key of a tag of lower priority
C17_Witness ==
    /\ BindingOp
    /\ dstType = Tagged
    /\ dst0 = ZeroStruct(Tagged)
    /\ IsNil(err)
    /\ Lookup(Values, "ja") # <<>>
    /\ Lookup(Values, "-") # <<>>
    /\ Lookup(Values, "qb") # <<>>
    /\ dst = << <<>>, <<"q", "b">>, <<>>, <<>> >>

\* C18: when its key is supplied, a nil pointer field is allocated and its pointee set to the
\* converted value; an array field of length L given k values has its first min(L, k)
\* elements set to the converted values in their positions and the elements from min(L, k) on
\* as they were, and the values beyond L are not looked at: they raise no error
C18_PointerAndArray ==
    (BindingOp /\ Regular) =>
        /\ \A i \in Fields :
              (dstType.fields[i].CanSet /\ Reached(i) /\ FieldOK(i) /\ Supplied(i) # <<>>) =>
                  LET t == dstType.fields[i].Type
                  IN  /\ (Kind(t) = "ptr" /\ dst0[i] = <<>> /\ Supplied(i)[1] # <<>>) =>
                            dst[i] = <<Converted(Elem(t), Supplied(i)[1])>>
                      /\ Kind(t) = "array" =>
                            \A j \in 1..ArrayLen(t) :
                                dst[i][j] = IF j <= Min(ArrayLen(t), Len(Supplied(i)))
                                            THEN Converted(Elem(t), Supplied(i)[j])
                                            ELSE dst0[i][j]
        /\ ((\A i \in Fields : FieldOK(i)) /\ op \in {"Query", "Form"}) => IsNil(err)

\* a nil pointer was allocated for its value and an array of two took two values in their
\* positions
C18_Witness ==
    /\ op = "Query"
    /\ dstType = Refs
    /\ dst0 = ZeroStruct(Refs)
    /\ Supplied(1) = <<sJo>>
    /\ Supplied(2) = << <<"2">>, <<"1">> >>
    /\ IsNil(err)
    /\ dst = << <<sJo>>, <<2, 1>> >>

\* an array of two took the first two of three values, the third of which is no number
C18_WitnessLong ==
    /\ op = "Query"
    /\ dstType = Refs
    /\ Supplied(2) = << <<"2">>, <<"1">>, <<"x">> >>
    /\ IsNil(err)
    /\ dst[2] = <<2, 1>>

\* an array of two that held values was given one value: the second element is as it was
C18_WitnessShort ==
    /\ op = "Form"
    /\ dstType = Refs
    /\ dst0 = FilledStruct(Refs)
    /\ Supplied(2) = << <<"2">> >>
    /\ IsNil(err)
    /\ dst[2] = <<2, 7>>

\* the body is a JSON object that matches the destination
ValidBody == IsObjectText(body.data) /\ MatchesShape(body.data, dstType.fields)

C19_WitnessTrailing ==
    /\ op = "ServeHTTP"
    /\ bodyLimit = 24
    /\ Size(body.data) = 38
    /\ status = StatusOK
    /\ dst = <<<<"J", "o", "h", "n">>, 25>>

\* C20: an App created by New() with no config, or with a config in which BodyLimit is not
\* set, has the default body limit of 10 MB; a config with BodyLimit > 0 sets that limit
C20_DefaultBodyLimit ==
    op = "New" =>
        /\ (~config.given \/ ~config.BodyLimitSet) => bodyLimit = 10 * MB
        /\ (config.given /\ config.BodyLimitSet /\ config.BodyLimit > 0) =>
              bodyLimit = config.BodyLimit

\* field i is the first field whose binding fails
Failing(i) == dstType.fields[i].CanSet /\ Reached(i) /\ ~FieldOK(i)

\* C28: the value binding goes through the fields in declaration order and stops at the
\* first failing field: the call returns the error of that field, every field declared
\* before it holds its newly bound values, every non-pointer field declared after it is as
\* it was, and a failing sequence field is itself as it was
C28_StopsAtFirstFailingField ==
    (BindingOp /\ Regular) =>
        \A f \in Fields : Failing(f) =>
            /\ \/ IsFieldTooLong(err, dstType.fields[f].Name)
               \/ IsInvalidFieldValue(err, dstType.fields[f].Name)
            /\ \A i \in 1..(f - 1) : dstType.fields[i].CanSet =>
                  \A j \in 1..Len(Used(i)) : Holds(i, j, Converted(ValueType(i), Used(i)[j]))
            /\ \A i \in (f + 1)..Len(dstType.fields) :
                  Kind(dstType.fields[i].Type) # "ptr" => dst[i] = dst0[i]
            /\ Kind(dstType.fields[f].Type) = "slice" => dst[f] = dst0[f]

\* the second value of the second field, a sequence, did not convert: the call failed
\* naming it, the first field holds its new value and the sequence is as it was
C28_Witness ==
    /\ op = "Query"
    /\ dstType = Lists
    /\ dst0 = FilledStruct(Lists)
    /\ Supplied(1) = << <<"b">> >>
    /\ Supplied(2) = << <<"1">>, <<"-", "1", "2", "9">> >>
    /\ IsInvalidFieldValue(err, "Scores")
    /\ dst[1] = [isNil |-> FALSE, elems |-> << <<"b">> >>]
    /\ dst[2] = dst0[2]

\* field i is a scalar: after the pointer of a pointer field was followed it is neither an
\* array nor a sequence
Scalar(i) == Kind(BaseType(dstType.fields[i].Type)) \notin {"array", "slice"}

\* the value mapping without a key
Without(values, key) == [k \in DOMAIN values \ {key} |-> values[k]]

\* the call binds the parsed values of a query string or of a form
BindsValues == op \in {"Query", "Form"} /\ Regular /\ (op = "Form" => ~form.err)

\* C30: a key whose first value is the empty string is to a scalar field what an absent key
\* is: the call ends with the error and the destination it ends with when the key is not in
\* the mapping, a scalar field that is not a pointer is as it was and the error is not about
\* it, whatever the scalar kind; an empty string among the values of an array or a sequence
\* field is converted like any other value: a string element holds it, a numeric field
\* fails on it
C30_EmptyValueIsAbsentKey ==
    BindsValues =>
        \A f \in Fields : dstType.fields[f].CanSet =>
            /\ (Scalar(f) /\ Supplied(f) # <<>> /\ Supplied(f)[1] = <<>>) =>
                  /\ With(bindValues(Without(Values, KeyOf(f)), dstShape, dstType.fields, dst0),
                          LAMBDA r : err = r.err /\ dst = r.dst)
                  /\ Kind(dstType.fields[f].Type) # "ptr" => dst[f] = dst0[f]
                  /\ ~IsInvalidFieldValue(err, dstType.fields[f].Name)
            /\ ~Scalar(f) =>
                  \A j \in 1..Len(Used(f)) : (ReachedValue(f, j) /\ Used(f)[j] = <<>>) =>
                      IF ValueType(f) = "string"
                      THEN FieldOK(f) => Holds(f, j, <<>>)
                      ELSE IsInvalidFieldValue(err, dstType.fields[f].Name)

C30_Witness ==
    /\ op = "Query" /\ dstType = Flags /\ dst0 = FilledStruct(Flags)
    /\ Supplied(1) = << <<>> >> /\ Supplied(2) = << <<>> >> /\ Supplied(3) = <<>>
    /\ Supplied(4) = <<>> /\ Supplied(5) = << <<>> >>
    /\ IsNil(err)
    /\ dst[1] = dst0[1] /\ dst[2] = dst0[2] /\ dst[3] = dst0[3]
    /\ dst[5][1] = <<>>

\* an empty value reaches a sequence of integers and fails it
C30_WitnessSequence ==
    /\ op = "Query" /\ dstType = Flags /\ dst0 = FilledStruct(Flags)
    /\ Supplied(3) = << <<>> >> /\ Supplied(4) = << <<>> >>
    /\ IsInvalidFieldValue(err, "Marks") /\ dst[3] = dst0[3]

\* the entries of a comma-separated list, in order
RECURSIVE SplitComma(_)
SplitComma(s) ==
    IF \A k \in 1..Len(s) : s[k] # ","
    THEN <<s>>
    ELSE <<SubSeq(s, 1, Index(s, ","))>> \o SplitComma(SubSeq(s, Index(s, ",") + 2, Len(s)))

\* an address without its port: what stands before the last colon
WithoutPort(addr) ==
    IF \E k \in 1..Len(addr) : addr[k] = ":"
    THEN SubSeq(addr, 1, CHOOSE k \in 0..(Len(addr) - 1) : addr[k + 1] = ":" /\ \A l \in (k + 2)..Len(addr) : addr[l] # ":")
    ELSE addr

\* C24: without trustProxy ClientIP returns RemoteAddr without its port, whatever the
\* X-Real-IP and X-Forwarded-For headers are; with trustProxy it returns X-Real-IP when that is
\* not empty, else the trimmed first comma-separated entry of X-Forwarded-For when that header
\* is not empty, else RemoteAddr without its port
C24_ClientIP ==
    op = "ClientIP" =>
        clientIP = IF trustProxy /\ xRealIP # <<>> THEN xRealIP
                   ELSE IF trustProxy /\ xForwardedFor # <<>>
                        THEN TrimSpace(SplitComma(xForwardedFor)[1])
                        ELSE WithoutPort(remoteAddr)

\* the code the default error handler answers an error with
CodeOf(e) == IF e.Code > 0 THEN e.Code ELSE 500

\* what the chain of the served request returned, from what its functions did
Returned == IF served.stopAt > 0 THEN served.stopErr ELSE served.handler.ret

\* C21: serving a request calls the error handler of the App once, with the error, when the
\* chain returns an error, and not at all when it returns nil; the default error handler
\* answers an *HTTPError with its code and any other error with 500, and that is the status
\* of the response when the handler had sent none
C21_ErrorHandlerOnce ==
    op = "Serve" =>
        /\ served.err = Returned
        /\ IsNil(served.err) => errorHandlerCalls = <<>>
        /\ ~IsNil(served.err) =>
              /\ errorHandlerCalls = <<served.err>>
              /\ writes # <<>> /\ writes[Len(writes)] = CodeOf(served.err)
              /\ (served.stopAt > 0 \/ ~served.handler.responds) => writes = <<CodeOf(served.err)>>

C21_Witness ==
    /\ op = "Serve" /\ served.stopAt = 0 /\ ~served.handler.responds
    /\ served.err.Code = StatusNotFound
    /\ errorHandlerCalls = <<served.err>> /\ writes = <<StatusNotFound>>

\* an error that is no *HTTPError is answered with 500; a chain returning nil calls nothing
C21_WitnessOther ==
    /\ op = "Serve" /\ served.stopAt = 1 /\ served.err = PlainError
    /\ errorHandlerCalls = <<PlainError>> /\ writes = <<StatusInternalServerError>>

\* the functions that are to run for the served request: the middlewares handed over along
\* the path of its route, in that order, then the handler, up to the middleware that returns
\* an error without calling next
ToRun ==
    With(routes[served.route].given \o <<"handler">>, LAMBDA all :
        SubSeq(all, 1, IF served.stopAt = 0 THEN Len(all) ELSE served.stopAt))

\* C25: for a route registered through a Group or a RouteBuilder the middlewares run in the
\* order app-level middlewares (in Use order), group middlewares, sub-group and route
\* middlewares, per-method middlewares, and then the handler; a middleware that returns an
\* error without calling next keeps every later middleware and the handler from running
C25_MiddlewareOrder == op = "Serve" => served.ran = ToRun

\* C26: Groups and RouteBuilders share no middleware storage: whatever calls were made, every
\* Group and RouteBuilder holds the middlewares handed over along its own path and nothing
\* else, and every route is chained with the middlewares handed over along its own path
C26_NoSharedStorage ==
    /\ \A g \in 1..Len(groups) : Read(heap, groups[g].middlewares) = groups[g].given
    /\ \A r \in 1..Len(routes) : routes[r].chain = routes[r].given \o <<"handler">>

\* the middlewares that ran are the first ones of a chain, then the handler if none stopped
RanOf(chain) ==
    SubSeq(chain, 1, IF served'.stopAt = 0 THEN Len(chain) ELSE served'.stopAt)

\* C27: the chain of a route is fixed when the route is registered: no later step changes
\* it, a request is served with it whatever App.Use, Group.Use and RouteBuilder.With calls
\* came after the registration, and an App.Use call changes the middlewares of no Group
\* made before it
C27_ChainFixedAtRegistration ==
    [][/\ \A r \in 1..Len(routes) : r <= Len(routes') /\ routes'[r] = routes[r]
       /\ op' = "Serve" => served'.ran = RanOf(routes[served'.route].chain)
       /\ middlewares' # middlewares =>
             \A g \in 1..Len(groups) :
                 Read(heap', groups'[g].middlewares) = Read(heap, groups[g].middlewares)]_vars

\* a route registered on a Group is served with its chain of one middleware after the Group
\* and the App were given another middleware each
C27_Witness ==
    /\ op = "Serve" /\ served.stopAt = 0
    /\ routes[1].given = <<"m1">>
    /\ \E g \in 1..Len(groups) : groups[g].given = <<"m1", "m2">>
    /\ Read(heap, middlewares) = <<"m3">>
    /\ served.ran = <<"m1", "handler">>

\* C29: at most one status line is written for a request: the handler, the response helpers
\* and the error handler together call WriteHeader at most once
C29_OneStatusLine == Len(writes) <= 1

\* the value of a response header, "" when it is not set
HeaderGet(name) == IF name \in DOMAIN header THEN header[name][1] ELSE ""

Entries == {corsConfig.AllowOrigins[k] : k \in 1..Len(corsConfig.AllowOrigins)}

\* the first entry of AllowOrigins that is the wildcard or the origin of the request
Matching == {k \in 1..Len(corsConfig.AllowOrigins) : corsConfig.AllowOrigins[k] \in {"*", origin}}

FirstMatch == corsConfig.AllowOrigins[CHOOSE k \in Matching : \A l \in Matching : k <= l]

\* C22 as stated: a preflight request whose origin the config allows, by an entry equal to
\* it or by "*", is answered with 204 and Access-Control-Allow-Origin ("*" under a config
\* with the wildcard, the origin of the request otherwise), and the next handler is not served
C22_PreflightOfAllowedOrigin ==
    (op = "CORS" /\ method = "OPTIONS" /\ Matching # {}) =>
        /\ status = StatusNoContent
        /\ "Access-Control-Allow-Origin" \in DOMAIN header
        /\ header["Access-Control-Allow-Origin"] = <<IF "*" \in Entries THEN "*" ELSE origin>>
        /\ nextCalls = 0

\* C22, amended: a preflight request whose origin is allowed by an entry that is not the
\* empty text (the first entry that is "*" or equals the origin) is answered with 204 and
\* Access-Control-Allow-Origin, "*" when that entry is "*" and the origin otherwise, and the
\* next handler is not served; when that entry is the empty text, which equals the origin of a
\* request without Origin header, the request goes to the next handler with no header set
C22_PreflightOfNamedOrigin ==
    (op = "CORS" /\ method = "OPTIONS" /\ Matching # {}) =>
        IF FirstMatch # ""
        THEN /\ status = StatusNoContent
             /\ "Access-Control-Allow-Origin" \in DOMAIN header
             /\ header["Access-Control-Allow-Origin"] = <<IF FirstMatch = "*" THEN "*" ELSE origin>>
             /\ nextCalls = 0
        ELSE status = 0 /\ header = <<>> /\ nextCalls = 1

C22_Witness ==
    /\ op = "CORS" /\ method = "OPTIONS" /\ origin = "https://example.com"
    /\ corsConfig.AllowOrigins = <<"https://other.example", "https://example.com">>
    /\ status = StatusNoContent /\ nextCalls = 0
    /\ HeaderGet("Access-Control-Allow-Origin") = "https://example.com"

\* the wildcard of the default config answers a preflight request with "*"
C22_WitnessWildcard ==
    /\ op = "CORS" /\ method = "OPTIONS" /\ origin = "https://example.com"
    /\ corsConfig.AllowOrigins = <<"*">>
    /\ status = StatusNoContent /\ nextCalls = 0
    /\ HeaderGet("Access-Control-Allow-Origin") = "*"

\* C23: under a config without "*" in AllowOrigins, a request whose Origin equals no entry
\* gets no CORS response header and goes on to the next handler, and a request whose Origin
\* equals an entry gets Access-Control-Allow-Origin with that origin, and
\* Access-Control-Allow-Credentials: true when AllowCredentials is set
C23_OriginAllowList ==
    (op = "CORS" /\ "*" \notin Entries) =>
        IF origin \notin Entries
        THEN header = <<>> /\ status = 0 /\ nextCalls = 1
        ELSE /\ "Access-Control-Allow-Origin" \in DOMAIN header
             /\ header["Access-Control-Allow-Origin"] = <<origin>>
             /\ corsConfig.AllowCredentials =>
                   HeaderGet("Access-Control-Allow-Credentials") = "true"
====
